---- MODULE Spec2Model ----
(***************************************************************************)
(* Operator hideout prediction: candidate grid, hard site-boundary veto,   *)
(* terrain-aware scoring, ranking, the OSM region cache and the V1         *)
(* fallback of the factory.                                                *)
(*                                                                         *)
(* Number representation                                                   *)
(*   latitude / longitude : integer micro-degrees (1e-6 degree)            *)
(*   distances            : integer metres                                 *)
(*   scores               : integer 1e-4 units (10000 = 1.0)               *)
(*   trigonometric values : integer 1e-4 units                             *)
(***************************************************************************)
EXTENDS Integers, Sequences, FiniteSets, TLC

None == "None"

----------------------------------------------------------------------------
(* Arithmetic helpers standing for Python float arithmetic.                *)

Abs(x) == IF x < 0 THEN -x ELSE x

Min(a, b) == IF a <= b THEN a ELSE b

Max(a, b) == IF a >= b THEN a ELSE b

\* a / b rounded toward zero (float division followed by integer scaling)
Div(a, b) == IF a >= 0 THEN a \div b ELSE -((-a) \div b)

\* a / b rounded to nearest (Python round())
RoundDiv(a, b) == IF a >= 0 THEN (2 * a + b) \div (2 * b) ELSE -((2 * (-a) + b) \div (2 * b))

RECURSIVE SqrtIter(_, _, _)
SqrtIter(n, lo, hi) ==
    IF lo >= hi THEN lo
    ELSE LET mid == (lo + hi + 1) \div 2
         IN  IF mid * mid <= n THEN SqrtIter(n, mid, hi) ELSE SqrtIter(n, lo, mid - 1)

\* math.sqrt on a squared distance in m^2 (result in whole metres)
Sqrt(n) == SqrtIter(n, 0, 46340)

\* math.cos(math.radians(a)) for the angles the program uses (multiples of 15)
CosDegE4(a) ==
    LET r == a % 360
        f == IF r > 180 THEN 360 - r ELSE r
        g == IF f > 90 THEN 180 - f ELSE f
        v == CASE g = 0  -> 10000
               [] g = 15 -> 9659
               [] g = 30 -> 8660
               [] g = 45 -> 7071
               [] g = 60 -> 5000
               [] g = 75 -> 2588
               [] g = 90 -> 0
    IN  IF f > 90 THEN -v ELSE v

SinDegE4(a) == CosDegE4(a + 270)

\* math.cos(math.radians(lat)) for latitudes between 50.5 and 52.5 degrees,
\* linearised around 51.5 degrees (cos = 0.6225, slope -0.0137 per degree)
CosLatE4(lat) == 6225 - Div((lat - 51500000) * 137, 1000000)

----------------------------------------------------------------------------
(* site_boundary.py                                                        *)

\* Coordinate differences up to this many micro-degrees are converted at
\* metre resolution; larger ones (the centres of other sites) at 10 m
\* resolution, which keeps the squares within the integer range.
FarAwayU == 150000

\* float('inf') for distances
Infinity == 2000000000

\* SiteBoundary._haversine_distance (and its module-level copies), in metres
HaversineM(lat1, lon1, lat2, lon2) ==
    LET dlat == lat2 - lat1
        dlon == lon2 - lon1
    IN  IF Abs(dlat) > FarAwayU \/ Abs(dlon) > FarAwayU
        THEN LET dy == Div(Div(dlat, 100) * 1112, 1000)
                 dx == Div(Div(Div(dlon, 100) * CosLatE4(lat1), 10000) * 1112, 1000)
             IN  10 * Sqrt(dx * dx + dy * dy)
        ELSE LET dy  == Div(dlat * 11120, 100000)
                 dxu == Div(dlon * CosLatE4(lat1), 10000)
                 dx  == Div(dxu * 11120, 100000)
             IN  Sqrt(dx * dx + dy * dy)

KNOWN_SITES ==
    << [site_name |-> "Volkel Air Base", center_lat |-> 51656400, center_lon |-> 5708300,
        radius_m |-> 1500, safety_buffer_m |-> 200],
       [site_name |-> "Eindhoven Airport", center_lat |-> 51450000, center_lon |-> 5374700,
        radius_m |-> 1200, safety_buffer_m |-> 200],
       [site_name |-> "Schiphol Airport", center_lat |-> 52310500, center_lon |-> 4768300,
        radius_m |-> 2500, safety_buffer_m |-> 200] >>

\* a boundary test without the safety buffer, against which the Volkel
\* counts are checked for sensitivity
InsideRadiusOnly(site, lat, lon) ==
    HaversineM(site.center_lat, site.center_lon, lat, lon) <= site.radius_m

\* a boundary test that leaves out the points exactly at radius + buffer
InsideStrictly(site, lat, lon) ==
    HaversineM(site.center_lat, site.center_lon, lat, lon) < site.radius_m + site.safety_buffer_m

\* SiteBoundary.is_inside_boundary, circular branch (every registry entry is circular)
IsInsideBoundary(site, lat, lon) ==
    HaversineM(site.center_lat, site.center_lon, lat, lon) <= site.radius_m + site.safety_buffer_m

\* a lookup that takes the first site within the radius instead of the nearest
FirstSiteWithinRadius(lat, lon, radius_m) ==
    LET within == { i \in 1..Len(KNOWN_SITES) :
                      HaversineM(KNOWN_SITES[i].center_lat, KNOWN_SITES[i].center_lon, lat, lon) <= radius_m }
    IN  IF within = {} THEN 0 ELSE CHOOSE i \in within : \A j \in within : i <= j

RECURSIVE NearestSite(_, _, _, _, _, _)
NearestSite(lat, lon, radius_m, i, nearest, min_distance) ==
    IF i > Len(KNOWN_SITES) THEN nearest
    ELSE LET site == KNOWN_SITES[i]
             d    == HaversineM(site.center_lat, site.center_lon, lat, lon)
         IN  IF d <= radius_m /\ d < min_distance
             THEN NearestSite(lat, lon, radius_m, i + 1, i, d)
             ELSE NearestSite(lat, lon, radius_m, i + 1, nearest, min_distance)

\* get_site_boundary_by_location: index into KNOWN_SITES, 0 for None
GetSiteBoundaryByLocation(lat, lon, radius_m) == NearestSite(lat, lon, radius_m, 1, 0, Infinity)

----------------------------------------------------------------------------
(* terrain/osm_loader.py                                                   *)

\* the degrees-per-kilometre conversion (x / 111.0) applied to metres,
\* giving micro-degrees of latitude
OffsetLat(dist_m, angle_deg) == Div(dist_m * CosDegE4(angle_deg), 1110)

\* ... / (111.0 * cos(radians(center_lat))) * sin(angle): micro-degrees of longitude
OffsetLon(center_lat, dist_m, angle_deg) ==
    Div(Div(dist_m * SinDegE4(angle_deg), 1110) * 10000, CosLatE4(center_lat))

\* cache_key = (round(lat, 4), round(lon, 4), radius_km)
CacheKey(lat, lon, radius_km) == << RoundDiv(lat, 100), RoundDiv(lon, 100), radius_km >>

OsmRoads ==
    << [type |-> "primary", distance_m |-> 50],
       [type |-> "secondary", distance_m |-> 150],
       [type |-> "tertiary", distance_m |-> 300] >>

OsmBuildings ==
    << [type |-> "residential", count |-> 20],
       [type |-> "commercial", count |-> 5] >>

\* landuse_features of _generate_synthetic_osm_data, in list order: for every
\* angle 0, 30, .., 330 the 0.5 km residential feature, then the 1.5 km and
\* 2.5 km features (forest / farmland alternating)
LanduseFeature(lat, lon, k) ==
    LET angle   == ((k - 1) \div 3) * 30
        ring    == (k - 1) % 3
        dist_m  == IF ring = 0 THEN 500 ELSE IF ring = 1 THEN 1500 ELSE 2500
        ltype   == IF ring = 0 THEN "residential"
                   ELSE IF angle % 60 < 30 THEN "forest" ELSE "farmland"
    IN  [landuse_type |-> ltype,
         center_lat   |-> lat + OffsetLat(dist_m, angle),
         center_lon   |-> lon + OffsetLon(lat, dist_m, angle)]

NumLanduseFeatures == 36

RECURSIVE LanduseFeatures(_, _, _)
\* landuse_features, from the k-th feature on
LanduseFeatures(lat, lon, k) ==
    IF k > NumLanduseFeatures THEN << >>
    ELSE << LanduseFeature(lat, lon, k) >> \o LanduseFeatures(lat, lon, k + 1)

\* _generate_synthetic_osm_data: the features are laid out around the
\* (unrounded) centre it is given
GenerateSyntheticOsmData(lat, lon, radius_km) ==
    [center_lat |-> lat, center_lon |-> lon, radius_km |-> radius_km,
     landuse_features |-> LanduseFeatures(lat, lon, 1),
     roads |-> OsmRoads, buildings |-> OsmBuildings]

\* load_osm_landuse: <<returned data, cache after the call>>
LoadOsmLanduse(cache, lat, lon, radius_km) ==
    LET cache_key == CacheKey(lat, lon, radius_km)
    IN  IF cache_key \in DOMAIN cache
        THEN << cache[cache_key], cache >>
        ELSE LET osm_data == GenerateSyntheticOsmData(lat, lon, radius_km)
             IN  << osm_data, (cache_key :> osm_data) @@ cache >>

\* osm_loader._haversine_distance squared, in dm^2; beyond about one
\* kilometre it saturates (get_landuse_at_point only asks whether the
\* nearest feature is closer than 0.5 km)
OsmDistSqDm(lat1, lon1, lat2, lon2) ==
    LET dlat == lat2 - lat1
        dlon == lon2 - lon1
    IN  IF Abs(dlat) > 9000 \/ Abs(dlon) > 15000 THEN Infinity
        ELSE LET dy == Div(dlat * 111195, 100000)
                 dx == Div(Div(dlon * CosLatE4(lat1), 10000) * 111195, 100000)
             IN  dx * dx + dy * dy

RECURSIVE ClosestFeature(_, _, _, _, _, _)
ClosestFeature(lat, lon, osm_data, k, min_dist, closest_type) ==
    IF k > Len(osm_data.landuse_features) THEN << min_dist, closest_type >>
    ELSE LET feature == osm_data.landuse_features[k]
             dist    == OsmDistSqDm(lat, lon, feature.center_lat, feature.center_lon)
         IN  IF dist < min_dist
             THEN ClosestFeature(lat, lon, osm_data, k + 1, dist, feature.landuse_type)
             ELSE ClosestFeature(lat, lon, osm_data, k + 1, min_dist, closest_type)

\* get_landuse_at_point
GetLanduseAtPoint(lat, lon, osm_data) ==
    LET c == ClosestFeature(lat, lon, osm_data, 1, Infinity, None)
    IN  IF c[1] < 5000 * 5000 THEN c[2] ELSE "unknown"

----------------------------------------------------------------------------
(* terrain/elevation_loader.py                                             *)

\* samples_per_km
SamplesPerKm == 4

\* _generate_synthetic_elevation at the 32 x 32 grid samples of
\* load_elevation(lat, lon, 4.0), in decimetres; row i is the latitude
\* index, column j the longitude index, the centre is row 17, column 17.
\* The values depend on the sample's offset from the centre only (tabulated
\* at latitude 51.66).
SyntheticElevationDm ==
    << << 708, 723, 739, 756, 772, 788, 803, 815, 822, 822, 814, 793, 758, 707, 641, 563, 478, 395, 318, 256, 209, 178, 163, 160, 166, 180, 198, 218, 240, 263, 285, 307 >>,
       << 692, 707, 724, 741, 759, 777, 793, 808, 819, 824, 819, 802, 770, 720, 652, 570, 480, 390, 310, 246, 200, 172, 161, 162, 173, 190, 211, 234, 258, 281, 305, 327 >>,
       << 674, 690, 706, 724, 743, 762, 782, 799, 814, 823, 823, 811, 782, 733, 664, 577, 481, 386, 301, 235, 191, 167, 160, 167, 182, 203, 227, 252, 277, 302, 325, 348 >>,
       << 655, 671, 687, 706, 725, 746, 767, 787, 806, 819, 825, 818, 794, 747, 677, 586, 482, 380, 291, 224, 182, 163, 162, 174, 194, 218, 245, 272, 299, 324, 348, 370 >>,
       << 636, 650, 667, 685, 705, 726, 749, 772, 794, 812, 824, 824, 805, 762, 692, 595, 484, 373, 279, 212, 174, 161, 167, 185, 210, 238, 267, 295, 322, 348, 372, 393 >>,
       << 615, 629, 645, 663, 682, 704, 728, 753, 778, 801, 819, 826, 815, 778, 708, 606, 485, 365, 266, 200, 168, 162, 176, 200, 229, 260, 291, 321, 348, 374, 397, 418 >>,
       << 593, 606, 621, 638, 658, 679, 703, 730, 758, 785, 810, 825, 823, 793, 726, 619, 486, 355, 251, 188, 163, 167, 189, 220, 253, 287, 319, 349, 376, 401, 423, 443 >>,
       << 571, 583, 597, 612, 631, 652, 676, 702, 732, 764, 794, 818, 828, 808, 745, 634, 488, 343, 235, 177, 163, 178, 209, 245, 282, 318, 351, 380, 406, 430, 451, 470 >>,
       << 548, 559, 571, 585, 602, 622, 645, 671, 702, 735, 771, 804, 826, 821, 767, 651, 489, 328, 216, 168, 168, 196, 235, 277, 317, 353, 385, 413, 438, 460, 479, 496 >>,
       << 525, 534, 545, 557, 572, 590, 611, 636, 666, 701, 740, 781, 816, 828, 789, 673, 491, 310, 197, 164, 182, 223, 270, 315, 356, 391, 421, 448, 470, 490, 507, 523 >>,
       << 503, 510, 519, 529, 542, 557, 575, 598, 625, 659, 700, 746, 794, 827, 811, 699, 492, 286, 179, 168, 208, 261, 314, 360, 399, 432, 460, 483, 503, 521, 536, 549 >>,
       << 480, 486, 493, 501, 511, 523, 538, 557, 581, 612, 650, 699, 756, 811, 827, 732, 493, 257, 166, 189, 250, 313, 367, 411, 446, 475, 499, 519, 536, 551, 564, 575 >>,
       << 459, 463, 467, 473, 480, 489, 501, 516, 535, 560, 593, 638, 698, 770, 828, 771, 495, 220, 169, 233, 311, 377, 427, 465, 495, 519, 539, 555, 569, 580, 591, 600 >>,
       << 438, 440, 443, 446, 451, 457, 464, 474, 488, 506, 531, 567, 620, 697, 794, 814, 496, 181, 207, 310, 393, 450, 491, 521, 544, 562, 577, 589, 599, 608, 616, 623 >>,
       << 419, 419, 420, 421, 423, 426, 430, 435, 443, 453, 469, 491, 528, 589, 696, 829, 497, 170, 309, 421, 487, 528, 556, 576, 591, 603, 612, 621, 628, 634, 640, 645 >>,
       << 401, 400, 399, 399, 398, 398, 399, 400, 402, 405, 411, 420, 435, 463, 524, 695, 499, 308, 484, 550, 582, 602, 615, 625, 633, 639, 644, 649, 654, 658, 661, 665 >>,
       << 385, 383, 380, 378, 376, 374, 372, 370, 367, 365, 363, 361, 359, 357, 354, 352, 650, 652, 654, 657, 659, 661, 663, 665, 667, 670, 672, 674, 676, 678, 680, 683 >>,
       << 370, 367, 364, 361, 357, 354, 350, 345, 341, 335, 329, 322, 314, 304, 298, 336, 499, 666, 710, 708, 703, 699, 697, 695, 694, 694, 694, 694, 695, 695, 696, 698 >>,
       << 358, 354, 351, 346, 342, 338, 333, 328, 322, 316, 310, 305, 301, 306, 337, 438, 497, 561, 667, 704, 714, 715, 714, 713, 711, 710, 710, 709, 709, 709, 710, 710 >>,
       << 348, 344, 340, 335, 331, 326, 321, 317, 312, 308, 305, 306, 314, 339, 395, 480, 496, 515, 606, 668, 698, 711, 717, 719, 720, 720, 720, 720, 719, 719, 720, 720 >>,
       << 339, 335, 331, 327, 323, 319, 315, 312, 309, 309, 311, 320, 340, 378, 437, 494, 495, 498, 560, 626, 669, 694, 709, 716, 721, 723, 725, 725, 726, 726, 727, 727 >>,
       << 333, 329, 326, 322, 319, 316, 313, 312, 313, 316, 325, 341, 369, 411, 463, 498, 493, 490, 530, 588, 637, 670, 692, 706, 715, 720, 724, 727, 728, 730, 731, 732 >>,
       << 329, 326, 323, 320, 317, 316, 316, 317, 321, 329, 342, 364, 396, 437, 478, 499, 492, 487, 512, 559, 606, 644, 671, 691, 704, 713, 720, 724, 728, 730, 732, 734 >>,
       << 326, 324, 321, 320, 319, 319, 321, 325, 332, 344, 361, 386, 418, 455, 486, 498, 491, 484, 501, 537, 580, 618, 649, 672, 689, 702, 712, 719, 724, 728, 731, 733 >>,
       << 326, 324, 322, 322, 322, 324, 328, 335, 345, 360, 380, 406, 436, 467, 490, 497, 489, 483, 493, 521, 558, 595, 627, 653, 673, 689, 701, 710, 717, 723, 728, 731 >>,
       << 326, 325, 325, 326, 328, 332, 338, 346, 359, 375, 397, 422, 450, 475, 492, 495, 488, 482, 488, 509, 540, 574, 606, 633, 656, 674, 688, 700, 709, 716, 722, 727 >>,
       << 328, 328, 329, 331, 335, 340, 348, 358, 372, 390, 412, 436, 460, 481, 493, 494, 486, 481, 484, 501, 527, 557, 587, 615, 638, 658, 675, 688, 699, 708, 716, 722 >>,
       << 331, 332, 334, 338, 342, 349, 359, 371, 386, 404, 424, 447, 468, 484, 493, 492, 485, 479, 481, 494, 515, 542, 570, 597, 622, 643, 661, 676, 688, 699, 707, 715 >>,
       << 335, 337, 340, 345, 351, 359, 369, 382, 398, 416, 435, 455, 473, 486, 492, 490, 484, 478, 479, 489, 507, 530, 556, 582, 606, 627, 646, 663, 676, 688, 698, 707 >>,
       << 340, 343, 347, 352, 359, 368, 380, 393, 409, 426, 444, 462, 477, 487, 491, 488, 482, 477, 477, 485, 499, 520, 543, 567, 591, 613, 632, 649, 664, 677, 688, 698 >>,
       << 345, 349, 354, 360, 368, 378, 390, 403, 419, 435, 452, 467, 480, 487, 490, 487, 481, 476, 475, 481, 493, 511, 532, 555, 577, 599, 618, 636, 652, 666, 678, 688 >>,
       << 351, 355, 361, 368, 377, 387, 399, 412, 427, 443, 458, 471, 481, 487, 488, 485, 480, 475, 474, 478, 488, 504, 523, 543, 565, 586, 605, 623, 640, 654, 667, 679 >> >>

\* load_elevation: the grid is determined by its centre and radius
LoadElevation(lat, lon, radius_km) == [center_lat |-> lat, center_lon |-> lon, radius_km |-> radius_km]

\* get_elevation_at_point: the sample nearest to the point (a point that is
\* itself a key of the map is its own nearest sample), in decimetres
GetElevationAtPoint(lat, lon, elevation_map) ==
    LET n    == elevation_map.radius_km * 2 * SamplesPerKm
        dlat == lat - elevation_map.center_lat
        dlon == Div((lon - elevation_map.center_lon) * CosLatE4(elevation_map.center_lat), 10000)
        i    == RoundDiv(dlat * 111 * n, 2000000 * elevation_map.radius_km) + n \div 2
        j    == RoundDiv(dlon * 111 * n, 2000000 * elevation_map.radius_km) + n \div 2
    IN  SyntheticElevationDm[Max(0, Min(n - 1, i)) + 1][Max(0, Min(n - 1, j)) + 1]

----------------------------------------------------------------------------
(* terrain/cover_analyzer.py                                               *)

\* LANDUSE_COVER_SCORES.get(landuse, 0.40)
LanduseCoverScore(landuse) ==
    CASE landuse \in {"forest", "wood"}           -> 9500
      [] landuse = "scrub"                        -> 7500
      [] landuse = "residential"                  -> 7000
      [] landuse \in {"industrial", "commercial"} -> 6500
      [] landuse = "farmland"                     -> 3000
      [] landuse \in {"grass", "meadow"}          -> 2000
      [] landuse = "park"                         -> 2500
      [] landuse = "bare"                         -> 1000
      [] landuse = "water"                        -> 500
      [] OTHER                                    -> 4000

\* LANDUSE_CONCEALMENT_MULT.get(landuse, 0.6)
LanduseConcealmentMult(landuse) ==
    CASE landuse = "forest"      -> 10000
      [] landuse = "residential" -> 9000
      [] landuse = "industrial"  -> 7000
      [] landuse = "farmland"    -> 5000
      [] landuse = "grass"       -> 3000
      [] landuse = "water"       -> 1000
      [] OTHER                   -> 6000

\* elevation - center_elevation, in decimetres
ElevDiffToCenter(lat, lon, osm_data, elevation_map) ==
    GetElevationAtPoint(lat, lon, elevation_map)
        - GetElevationAtPoint(osm_data.center_lat, osm_data.center_lon, elevation_map)

\* compute_cover_score, once the landuse at the point and its elevation
\* difference to the centre are known
CoverScore(landuse, elev_diff, buildings) ==
    LET base_cover      == LanduseCoverScore(landuse)
        elevation_bonus == IF elev_diff < -100 THEN 1000 ELSE IF elev_diff < 0 THEN 500 ELSE 0
        building_bonus  == IF Len(buildings) > 0 THEN 500 ELSE 0
    IN  Min(10000, base_cover + elevation_bonus + building_bonus)

\* compute_cover_score
ComputeCoverScore(lat, lon, osm_data, elevation_map) ==
    CoverScore(GetLanduseAtPoint(lat, lon, osm_data),
               ElevDiffToCenter(lat, lon, osm_data, elevation_map), osm_data.buildings)

\* compute_concealment_score, once the landuse at the point and its
\* elevation difference to the centre are known
ConcealmentScore(landuse, elev_diff, time_of_day) ==
    LET base_concealment == (LanduseCoverScore(landuse) * LanduseConcealmentMult(landuse)) \div 10000
        night_bonus      == IF time_of_day = "night" THEN 2000 ELSE 0
        elev_variance    == Abs(elev_diff)
        terrain_bonus    == IF 50 < elev_variance /\ elev_variance < 300 THEN 1000 ELSE 0
    IN  Min(10000, base_concealment + night_bonus + terrain_bonus)

\* compute_concealment_score
ComputeConcealmentScore(lat, lon, osm_data, elevation_map, time_of_day) ==
    ConcealmentScore(GetLanduseAtPoint(lat, lon, osm_data),
                     ElevDiffToCenter(lat, lon, osm_data, elevation_map), time_of_day)

\* the dict compute_combined_cover_concealment returns
CombinedCoverConcealment(landuse, elev_diff, buildings, time_of_day) ==
    [cover       |-> CoverScore(landuse, elev_diff, buildings),
     concealment |-> ConcealmentScore(landuse, elev_diff, time_of_day),
     landuse     |-> landuse]

\* compute_combined_cover_concealment: compute_cover_score,
\* compute_concealment_score and get_landuse_at_point for the same point
\* (the three look the same landuse and elevations up)
ComputeCombinedCoverConcealment(lat, lon, osm_data, elevation_map, time_of_day) ==
    CombinedCoverConcealment(GetLanduseAtPoint(lat, lon, osm_data),
                             ElevDiffToCenter(lat, lon, osm_data, elevation_map),
                             osm_data.buildings, time_of_day)

----------------------------------------------------------------------------
(* terrain/exfil_analyzer.py                                               *)

\* ROAD_QUALITY_SCORES.get(road_type, 0.50)
RoadQualityScore(road_type) ==
    CASE road_type = "motorway"     -> 10000
      [] road_type = "trunk"        -> 9500
      [] road_type = "primary"      -> 9000
      [] road_type = "secondary"    -> 8500
      [] road_type = "tertiary"     -> 7500
      [] road_type = "residential"  -> 7000
      [] road_type = "unclassified" -> 6000
      [] road_type = "track"        -> 4000
      [] road_type = "path"         -> 2000
      [] road_type = "footway"      -> 1000
      [] OTHER                      -> 5000

\* one entry of routes in compute_exfil_routes
ExfilRoute(road) ==
    LET quality         == RoadQualityScore(road.type)
        distance_factor == IF road.distance_m < 50 THEN 10000
                           ELSE IF road.distance_m < 100 THEN 9000
                           ELSE IF road.distance_m < 200 THEN 8000
                           ELSE IF road.distance_m < 500 THEN 6000
                           ELSE 4000
    IN  [type |-> road.type, distance_m |-> road.distance_m,
         score |-> (quality * distance_factor) \div 10000]

\* list.sort(key=..., reverse=True) on records with a score: stable, so an
\* element goes after every element whose score is not smaller
RECURSIVE InsertByScoreDesc(_, _, _)
InsertByScoreDesc(sorted, x, i) ==
    IF i > Len(sorted) THEN Append(sorted, x)
    ELSE IF sorted[i].score < x.score
         THEN SubSeq(sorted, 1, i - 1) \o << x >> \o SubSeq(sorted, i, Len(sorted))
         ELSE InsertByScoreDesc(sorted, x, i + 1)

RECURSIVE SortByScoreDesc(_)
SortByScoreDesc(s) ==
    IF s = << >> THEN << >>
    ELSE InsertByScoreDesc(SortByScoreDesc(SubSeq(s, 1, Len(s) - 1)), s[Len(s)], 1)

\* compute_exfil_routes
ComputeExfilRoutes(roads) == SortByScoreDesc([i \in 1..Len(roads) |-> ExfilRoute(roads[i])])

\* score_exfil_attractiveness
ScoreExfilAttractiveness(osm_data) ==
    LET routes == ComputeExfilRoutes(osm_data.roads)
    IN  IF routes = << >> THEN 2000
        ELSE LET best_route_score      == routes[1].score
                 multiple_routes_bonus == IF Len(routes) >= 3 THEN 1500
                                          ELSE IF Len(routes) >= 2 THEN 1000 ELSE 0
                 road_types            == {routes[i].type : i \in 1..Min(3, Len(routes))}
                 diversity_bonus       == Cardinality(road_types) * 500
             IN  Min(10000, best_route_score + multiple_routes_bonus + diversity_bonus)

----------------------------------------------------------------------------
(* terrain/los_analyzer.py                                                 *)

\* num_samples default of compute_line_of_sight
LosNumSamples == 10

\* obstruction = sample_elev - expected_elev of sample i, times num_samples
\* (tenths of a decimetre), where
\* expected_elev = operator_elev + t * (target_elev - operator_elev), t = i / num_samples
ObstructionAt(operator_elev, target_elev, sample_elev, i) ==
    LosNumSamples * sample_elev - (LosNumSamples * operator_elev + i * (target_elev - operator_elev))

\* the loop body of compute_line_of_sight for sample i
LosObstruction(operator_lat, operator_lon, operator_elev, target_lat, target_lon, target_elev, elevation_map, i) ==
    ObstructionAt(operator_elev, target_elev,
                  GetElevationAtPoint(operator_lat + Div(i * (target_lat - operator_lat), LosNumSamples),
                                      operator_lon + Div(i * (target_lon - operator_lon), LosNumSamples),
                                      elevation_map),
                  i)

\* for i in range(1, num_samples): if obstruction > max_obstruction: max_obstruction = obstruction
RECURSIVE LosMaxObstruction(_, _, _, _, _, _, _, _, _)
LosMaxObstruction(operator_lat, operator_lon, operator_elev, target_lat, target_lon, target_elev, elevation_map, i, max_obstruction) ==
    IF i >= LosNumSamples THEN max_obstruction
    ELSE LosMaxObstruction(operator_lat, operator_lon, operator_elev, target_lat, target_lon, target_elev,
                           elevation_map, i + 1,
                           Max(max_obstruction,
                               LosObstruction(operator_lat, operator_lon, operator_elev, target_lat,
                                              target_lon, target_elev, elevation_map, i)))

\* the result of compute_line_of_sight for a maximal obstruction: the path
\* is blocked when some sample is more than 10 m above the line
LosResult(max_obstruction, operator_elevation, target_elevation) ==
    [has_los |-> ~(max_obstruction > 100 * LosNumSamples),
     quality |-> IF max_obstruction > 100 * LosNumSamples
                 THEN Max(0, 5000 - ((max_obstruction - 100 * LosNumSamples) * 200) \div (10 * LosNumSamples))
                 ELSE IF max_obstruction < -100 * LosNumSamples THEN 10000
                 ELSE IF max_obstruction < 0 THEN 9000
                 ELSE 8000,
     operator_elevation |-> operator_elevation,
     target_elevation   |-> target_elevation]

\* compute_line_of_sight once operator_elev and target_elev are looked up:
\* max_obstruction starts at 0.0
LineOfSightBetween(operator_lat, operator_lon, operator_elev, target_lat, target_lon, target_elev, elevation_map) ==
    LosResult(LosMaxObstruction(operator_lat, operator_lon, operator_elev, target_lat, target_lon,
                                target_elev, elevation_map, 1, 0),
              operator_elev, target_elev)

\* compute_line_of_sight
ComputeLineOfSight(operator_lat, operator_lon, target_lat, target_lon, elevation_map) ==
    LineOfSightBetween(operator_lat, operator_lon,
                       GetElevationAtPoint(operator_lat, operator_lon, elevation_map),
                       target_lat, target_lon,
                       GetElevationAtPoint(target_lat, target_lon, elevation_map),
                       elevation_map)

\* the elevation advantage bonus of compute_los_quality_score
LosElevationBonus(elev_diff) == IF elev_diff > 200 THEN 1000 ELSE IF elev_diff > 100 THEN 500 ELSE 0

\* compute_los_quality_score, given the result of compute_line_of_sight
LosQualityScore(los_result) ==
    Min(10000, los_result.quality
               + LosElevationBonus(los_result.operator_elevation - los_result.target_elevation))

\* compute_los_quality_score
ComputeLosQualityScore(operator_lat, operator_lon, target_lat, target_lon, elevation_map) ==
    LosQualityScore(ComputeLineOfSight(operator_lat, operator_lon, target_lat, target_lon, elevation_map))

----------------------------------------------------------------------------
(* operator_hideout_v2/behaviour_model_v2.py                               *)

DroneTypes ==
    {"consumer_dji", "consumer_other", "racing_fpv", "military_small",
     "military_medium", "diy_custom", "commercial", "unknown"}

DRONE_RANGE_PROFILES ==
    [dtype \in DroneTypes |->
        CASE dtype = "consumer_dji"    -> [min_range |-> 100, optimal_range |-> 800,  max_range |-> 4000]
          [] dtype = "consumer_other"  -> [min_range |-> 100, optimal_range |-> 600,  max_range |-> 3000]
          [] dtype = "racing_fpv"      -> [min_range |-> 50,  optimal_range |-> 400,  max_range |-> 2000]
          [] dtype = "military_small"  -> [min_range |-> 200, optimal_range |-> 2000, max_range |-> 10000]
          [] dtype = "military_medium" -> [min_range |-> 500, optimal_range |-> 5000, max_range |-> 25000]
          [] dtype = "diy_custom"      -> [min_range |-> 100, optimal_range |-> 1000, max_range |-> 5000]
          [] dtype = "commercial"      -> [min_range |-> 100, optimal_range |-> 1500, max_range |-> 8000]
          [] dtype = "unknown"         -> [min_range |-> 100, optimal_range |-> 1000, max_range |-> 4000]]

\* get_drone_range_profile
GetDroneRangeProfile(drone_type) ==
    IF drone_type \in DroneTypes THEN DRONE_RANGE_PROFILES[drone_type]
    ELSE DRONE_RANGE_PROFILES["unknown"]

\* a range score that stays at 0.3 beyond max_range
RangeScoreFlatBeyondMax(distance_m, drone_type) ==
    LET profile == IF drone_type \in DroneTypes THEN DRONE_RANGE_PROFILES[drone_type]
                   ELSE DRONE_RANGE_PROFILES["unknown"]
    IN  IF distance_m < profile.min_range
        THEN (3000 * distance_m) \div profile.min_range
        ELSE IF distance_m <= profile.optimal_range
        THEN 3000 + (7000 * (distance_m - profile.min_range)) \div (profile.optimal_range - profile.min_range)
        ELSE IF distance_m <= profile.max_range
        THEN 10000 - (7000 * (distance_m - profile.optimal_range)) \div (profile.max_range - profile.optimal_range)
        ELSE 3000

\* compute_range_score
ComputeRangeScore(distance_m, drone_type) ==
    LET profile       == GetDroneRangeProfile(drone_type)
        min_range     == profile.min_range
        optimal_range == profile.optimal_range
        max_range     == profile.max_range
    IN  IF distance_m < min_range
        THEN (3000 * distance_m) \div min_range
        ELSE IF distance_m <= optimal_range
        THEN 3000 + (7000 * (distance_m - min_range)) \div (optimal_range - min_range)
        ELSE IF distance_m <= max_range
        THEN 10000 - (7000 * (distance_m - optimal_range)) \div (max_range - optimal_range)
        ELSE Max(0, 3000 - ((distance_m - max_range) * 3000) \div max_range)

\* night rules without the cap at 1.0
NightRulesUncapped(base_score, time_of_day, cover_score, concealment_score) ==
    IF time_of_day # "night" THEN base_score
    ELSE base_score + (concealment_score * 1500) \div 10000 + (IF cover_score < 5000 THEN 1000 ELSE 0)

\* apply_night_operation_rules
ApplyNightOperationRules(base_score, time_of_day, cover_score, concealment_score) ==
    IF time_of_day # "night" THEN base_score
    ELSE LET night_concealment_boost == (concealment_score * 1500) \div 10000
             cover_penalty_reduction == IF cover_score < 5000 THEN 1000 ELSE 0
         IN  Min(10000, base_score + night_concealment_boost + cover_penalty_reduction)

\* compute_opsec_penalty
ComputeOpsecPenalty(distance_m, perimeter_radius_m) ==
    IF distance_m < perimeter_radius_m THEN 0 ELSE 10000

\* compute_composite_score_v2 with the default weights
ComputeCompositeScoreV2(cover_score, concealment_score, exfil_score, range_score, los_score, vector_alignment_score, locality_consistency_score, opsec_penalty) ==
    LET total_before_opsec ==
            (cover_score * 2000 + concealment_score * 1500 + exfil_score * 1500
               + range_score * 1500 + los_score * 1000 + vector_alignment_score * 1500
               + locality_consistency_score * 1000) \div 10000
    IN  [total_score |-> (total_before_opsec * opsec_penalty) \div 10000,
         components  |-> [cover |-> cover_score, concealment |-> concealment_score,
                          exfil |-> exfil_score, range |-> range_score, los |-> los_score,
                          vector_alignment |-> vector_alignment_score,
                          locality_consistency |-> locality_consistency_score,
                          opsec |-> opsec_penalty]]

----------------------------------------------------------------------------
(* osint_fusion/vector_alignment.py                                        *)
(* Strings are sequences of one-character strings; bearings are tenths of  *)
(* a degree.                                                               *)

LowerChars == << "a", "b", "c", "d", "e", "f", "g", "h", "i", "j", "k", "l", "m",
                 "n", "o", "p", "q", "r", "s", "t", "u", "v", "w", "x", "y", "z" >>

UpperChars == << "A", "B", "C", "D", "E", "F", "G", "H", "I", "J", "K", "L", "M",
                 "N", "O", "P", "Q", "R", "S", "T", "U", "V", "W", "X", "Y", "Z" >>

\* str.upper()
StrUpper(str) ==
    [i \in 1..Len(str) |->
        IF \E k \in 1..26 : LowerChars[k] = str[i]
        THEN UpperChars[CHOOSE k \in 1..26 : LowerChars[k] = str[i]]
        ELSE str[i]]

RECURSIVE StrStrip(_)
\* str.strip()
StrStrip(str) ==
    IF str = << >> THEN str
    ELSE IF str[1] = " " THEN StrStrip(Tail(str))
    ELSE IF str[Len(str)] = " " THEN StrStrip(SubSeq(str, 1, Len(str) - 1))
    ELSE str

\* a in b, for strings
StrIn(a, b) ==
    \E i \in 0..(Len(b) - Len(a)) : SubSeq(b, i + 1, i + Len(a)) = a

\* DIRECTION_TO_DEGREES, in insertion order
DIRECTION_TO_DEGREES ==
    << [key |-> << "N" >>,           value |-> 0],
       [key |-> << "N", "N", "E" >>, value |-> 225],
       [key |-> << "N", "E" >>,      value |-> 450],
       [key |-> << "E", "N", "E" >>, value |-> 675],
       [key |-> << "E" >>,           value |-> 900],
       [key |-> << "E", "S", "E" >>, value |-> 1125],
       [key |-> << "S", "E" >>,      value |-> 1350],
       [key |-> << "S", "S", "E" >>, value |-> 1575],
       [key |-> << "S" >>,           value |-> 1800],
       [key |-> << "S", "S", "W" >>, value |-> 2025],
       [key |-> << "S", "W" >>,      value |-> 2250],
       [key |-> << "W", "S", "W" >>, value |-> 2475],
       [key |-> << "W" >>,           value |-> 2700],
       [key |-> << "W", "N", "W" >>, value |-> 2925],
       [key |-> << "N", "W" >>,      value |-> 3150],
       [key |-> << "N", "N", "W" >>, value |-> 3375] >>

\* full_names of parse_direction, in insertion order
FullNames ==
    << [key |-> << "N", "O", "R", "T", "H" >>,                          value |-> 0],
       [key |-> << "N", "O", "R", "T", "H", "E", "A", "S", "T" >>,      value |-> 450],
       [key |-> << "E", "A", "S", "T" >>,                               value |-> 900],
       [key |-> << "S", "O", "U", "T", "H", "E", "A", "S", "T" >>,      value |-> 1350],
       [key |-> << "S", "O", "U", "T", "H" >>,                          value |-> 1800],
       [key |-> << "S", "O", "U", "T", "H", "W", "E", "S", "T" >>,      value |-> 2250],
       [key |-> << "W", "E", "S", "T" >>,                               value |-> 2700],
       [key |-> << "N", "O", "R", "T", "H", "W", "E", "S", "T" >>,      value |-> 3150] >>

\* None, for an optional string: a value no sequence of characters equals
NoneStr == << None >>

\* None, for an optional bearing (bearings lie in 0..3599)
NoBearing == -1

\* parse_direction
ParseDirection(direction_str) ==
    IF direction_str = NoneStr \/ direction_str = << >> THEN NoBearing
    ELSE LET str     == StrStrip(StrUpper(direction_str))
             exact   == {k \in 1..Len(DIRECTION_TO_DEGREES) : DIRECTION_TO_DEGREES[k].key = str}
             partial == {k \in 1..Len(DIRECTION_TO_DEGREES) :
                            StrIn(DIRECTION_TO_DEGREES[k].key, str) \/ StrIn(str, DIRECTION_TO_DEGREES[k].key)}
             full    == {k \in 1..Len(FullNames) : StrIn(FullNames[k].key, str)}
             First(S) == CHOOSE k \in S : \A j \in S : k <= j
         IN  IF exact # {} THEN DIRECTION_TO_DEGREES[First(exact)].value
             ELSE IF partial # {} THEN DIRECTION_TO_DEGREES[First(partial)].value
             ELSE IF full # {} THEN FullNames[First(full)].value
             ELSE NoBearing

\* math.atan of a ratio a / b in [0, 1], by the approximation
\* 45 x + 15.66 x (1 - x) degrees (exact at 0 and at 1)
AtanRatio(a, b) ==
    LET x == (a * 10000) \div b
    IN  (450 * x + (1566 * ((x * (10000 - x)) \div 10000)) \div 10) \div 10000

\* math.degrees(math.atan2(y, x)) with y the east and x the north component
Atan2Deg(east, north) ==
    LET a    == Abs(east)
        b    == Abs(north)
        base == IF a = 0 /\ b = 0 THEN 0
                ELSE IF a <= b THEN AtanRatio(a, b) ELSE 900 - AtanRatio(b, a)
        half == IF north >= 0 THEN base ELSE 1800 - base
    IN  IF east >= 0 THEN half ELSE -half

\* compute_bearing
ComputeBearing(lat1, lon1, lat2, lon2) ==
    LET y == Div((lon2 - lon1) * CosLatE4(lat2), 10000)
        x == lat2 - lat1
    IN  (Atan2Deg(y, x) + 3600) % 3600

\* angular_difference
AngularDifference(angle1, angle2) ==
    LET diff == Abs(angle1 - angle2)
    IN  IF diff > 1800 THEN 3600 - diff ELSE diff

\* a score that falls in one straight line from 1.0 at 0 degrees to 0.0 at 180
LinearAlignmentScore(bearing_diff) == 10000 - (bearing_diff * 10000) \div 1800

\* the piecewise-linear score of score_vector_alignment
AlignmentScore(bearing_diff) ==
    IF bearing_diff <= 300 THEN 10000
    ELSE IF bearing_diff <= 600 THEN 10000 - ((bearing_diff - 300) * 3000) \div 300
    ELSE IF bearing_diff <= 900 THEN 7000 - ((bearing_diff - 600) * 4000) \div 300
    ELSE 3000 - ((bearing_diff - 900) * 3000) \div 900

\* score_vector_alignment without a usable approach vector
NeutralAlignment ==
    [alignment_score |-> 5000, bearing_diff |-> NoBearing,
     expected_bearing |-> NoBearing, actual_bearing |-> NoBearing]

\* score_vector_alignment: weighting of the alignment by the confidence
WeightedAlignment(expected_bearing, actual_bearing, bearing_diff, confidence_weight) ==
    [alignment_score  |-> 5000 + Div((AlignmentScore(bearing_diff) - 5000) * confidence_weight, 10000),
     bearing_diff     |-> bearing_diff,
     expected_bearing |-> expected_bearing,
     actual_bearing   |-> actual_bearing]

\* score_vector_alignment once both bearings are known
AlignBearings(expected_bearing, actual_bearing, confidence_weight) ==
    WeightedAlignment(expected_bearing, actual_bearing,
                      AngularDifference(expected_bearing, actual_bearing), confidence_weight)

\* score_vector_alignment once the approach vector is parsed
AlignToExpected(expected_bearing, hotspot_lat, hotspot_lon, target_lat, target_lon, confidence_weight) ==
    IF expected_bearing = NoBearing THEN NeutralAlignment
    ELSE AlignBearings(expected_bearing,
                       ComputeBearing(hotspot_lat, hotspot_lon, target_lat, target_lon),
                       confidence_weight)

\* score_vector_alignment
ScoreVectorAlignment(hotspot_lat, hotspot_lon, target_lat, target_lon, approach_vector, confidence_weight) ==
    IF approach_vector = NoneStr \/ approach_vector = << >> THEN NeutralAlignment
    ELSE AlignToExpected(ParseDirection(approach_vector), hotspot_lat, hotspot_lon, target_lat,
                         target_lon, confidence_weight)

----------------------------------------------------------------------------
(* osint_fusion/evidence_weighting.py, osint_fusion/confidence_model.py    *)

\* An evidence item is [source_type, credibility_score]; its credibility is
\* << "num", c >> for a number c, << "none" >> for an explicit None and
\* << "missing" >> when the item has no such key.
\* e.get("credibility_score", 0.5)
Credibility(e) == IF e.credibility_score[1] = "missing" THEN 5000 ELSE e.credibility_score[2]

RECURSIVE SumCredibility(_, _)
SumCredibility(evidence_items, i) ==
    IF i > Len(evidence_items) THEN 0
    ELSE Credibility(evidence_items[i]) + SumCredibility(evidence_items, i + 1)

\* sum(credibilities) raises TypeError when a credibility is None
EvidenceWeightRaises(evidence_items) ==
    \E i \in 1..Len(evidence_items) : evidence_items[i].credibility_score[1] = "none"

\* compute_evidence_weight (total_weight)
ComputeEvidenceWeight(evidence_items) ==
    IF evidence_items = << >> THEN 0
    ELSE LET avg_credibility == Div(SumCredibility(evidence_items, 1), Len(evidence_items))
             source_types    == {evidence_items[i].source_type : i \in 1..Len(evidence_items)}
             diversity       == (Cardinality(source_types) * 10000) \div Max(Len(evidence_items), 5)
             num_sources     == Len(evidence_items)
             count_factor    == IF num_sources = 1 THEN 7000
                                ELSE IF num_sources <= 3 THEN 8500
                                ELSE IF num_sources <= 5 THEN 9500
                                ELSE 10000
             total_weight    == Div(Div(avg_credibility * count_factor, 10000)
                                      * (10000 + (diversity * 2000) \div 10000), 10000)
         IN  Min(10000, total_weight)

\* compute_confidence_level
ComputeConfidenceLevel(component_scores, evidence_weight, vector_alignment_score) ==
    LET confidence_score ==
            Div(component_scores.cover * 2500 + component_scores.exfil * 2000
                  + component_scores.range * 1500 + component_scores.los * 1500
                  + evidence_weight * 1500 + vector_alignment_score * 1000, 10000)
        level == IF confidence_score >= 7500 THEN "HIGH"
                 ELSE IF confidence_score >= 5500 THEN "MEDIUM"
                 ELSE "LOW"
    IN  [level |-> level, score |-> confidence_score]

----------------------------------------------------------------------------
(* operator_hideout_v2/engine_v2.py: the pure parts of the V2 engine       *)

\* OperatorHideoutEngineV2.__init__ defaults: search radius in km and the
\* perimeter radius in metres
SearchRadiusKm == 4

PerimeterRadiusM == 500

\* the radius, in metres, within which predict_operator_locations looks for
\* a known site
SiteLookupRadiusM == 5000

\* the default evidence weight of predict_operator_locations
DefaultEvidenceWeight == 5000

\* confidence_weight passed to score_vector_alignment
VectorConfidenceWeight == 8000

\* the number of hotspots kept by scored_hotspots[:3]
TopN == 3

\* distances_km, in metres, and angles of _generate_candidate_grid
GridDistancesM == << 200, 500, 1000, 1500, 2000, 2500, 3000, 3500, 4000 >>

GridAngles == << 0, 45, 90, 135, 180, 225, 270, 315 >>

\* _generate_candidate_grid
GenerateCandidateGrid(center_lat, center_lon) ==
    [i \in 1..(Len(GridDistancesM) * Len(GridAngles)) |->
        LET dist_m    == GridDistancesM[((i - 1) \div Len(GridAngles)) + 1]
            angle_deg == GridAngles[((i - 1) % Len(GridAngles)) + 1]
        IN  [lat         |-> center_lat + OffsetLat(dist_m, angle_deg),
             lon         |-> center_lon + OffsetLon(center_lat, dist_m, angle_deg),
             distance_m  |-> dist_m,
             bearing_deg |-> angle_deg]]

\* _landuse_to_cover_type
LanduseToCoverType(landuse) ==
    CASE landuse \in {"forest", "wood"}            -> "forest"
      [] landuse \in {"residential", "industrial"} -> "urban_building"
      [] landuse \in {"farmland", "grass"}         -> "open_field"
      [] landuse = "parking"                       -> "parking_lot"
      [] OTHER                                     -> "unknown"

\* _score_to_terrain_suitability
ScoreToTerrainSuitability(score) ==
    IF score >= 8000 THEN "excellent"
    ELSE IF score >= 6500 THEN "good"
    ELSE IF score >= 4500 THEN "moderate"
    ELSE IF score >= 2500 THEN "poor"
    ELSE "unsuitable"

\* _generate_reasoning_v2: the "; "-joined reasons, as a sequence of strings
GenerateReasoningV2(distance_m, cover_score, exfil_score, range_score, los_score, vector_score, cover_type, terrain_suit) ==
    LET distance == IF distance_m < 500 THEN "Very close (" \o ToString(distance_m) \o "m) - high risk"
                    ELSE IF distance_m < 1500 THEN "Close range (" \o ToString(distance_m) \o "m)"
                    ELSE IF distance_m < 2500 THEN "Optimal distance (" \o ToString(distance_m) \o "m)"
                    ELSE "Long range (" \o ToString(distance_m) \o "m)"
        cover    == IF cover_score > 7500 THEN "excellent " \o cover_type \o " cover"
                    ELSE IF cover_score > 5500 THEN "good " \o cover_type \o " cover"
                    ELSE "limited " \o cover_type \o " cover"
        exfil    == IF exfil_score > 7500 THEN << "good escape routes" >>
                    ELSE IF exfil_score < 4000 THEN << "limited escape routes" >>
                    ELSE << >>
        los      == IF los_score > 7500 THEN << "clear line-of-sight" >>
                    ELSE IF los_score < 4000 THEN << "obstructed LOS" >>
                    ELSE << >>
        vector   == IF vector_score > 7500 THEN << "strong vector alignment" >> ELSE << >>
    IN  << distance, cover >> \o exfil \o los \o vector \o << terrain_suit \o " terrain." >>

\* the fields of OperatorHotspotV2 declared with ge=0.0, le=1.0
ValidatedFields ==
    {"cover_score", "distance_score", "exfil_score", "opsec_score", "terrain_score", "total_score",
     "concealment_score", "range_score", "los_score", "vector_alignment_score",
     "locality_consistency_score", "confidence_score"}

\* pydantic accepts the hotspot: every validated field lies in [0, 1]
ValidHotspot(h) ==
    \A f \in ValidatedFields \cap DOMAIN h : h[f] >= 0 /\ h[f] <= 10000

\* _score_candidate_v2, the OperatorHotspotV2(...) it returns
HotspotV2(candidate_lat, candidate_lon, distance_m, cover_score, concealment_score, cover_type, exfil_score, range_score, los_score, vector_alignment_score, locality_consistency_score, opsec_penalty, total_score, confidence_data) ==
    [latitude |-> candidate_lat, longitude |-> candidate_lon,
     cover_score |-> cover_score, distance_score |-> range_score, exfil_score |-> exfil_score,
     opsec_score |-> opsec_penalty, terrain_score |-> los_score, total_score |-> total_score,
     cover_type |-> cover_type, terrain_suitability |-> ScoreToTerrainSuitability(total_score),
     distance_to_target_m |-> distance_m,
     nearest_road_type |-> "secondary_road", nearest_road_distance_m |-> 50,
     reasoning |-> GenerateReasoningV2(distance_m, cover_score, exfil_score, range_score, los_score,
                                       vector_alignment_score, cover_type,
                                       ScoreToTerrainSuitability(total_score)),
     concealment_score |-> concealment_score, range_score |-> range_score, los_score |-> los_score,
     vector_alignment_score |-> vector_alignment_score,
     locality_consistency_score |-> locality_consistency_score,
     confidence_level |-> confidence_data.level, confidence_score |-> confidence_data.score]

\* _score_candidate_v2 from the composite score on: night adjustment,
\* confidence level, hotspot
ScoreFromComposite(candidate_lat, candidate_lon, distance_m, cover_score, concealment_score, cover_type, exfil_score, range_score, los_score, vector_alignment_score, evidence_weight, opsec_penalty, composite, time_of_day) ==
    HotspotV2(candidate_lat, candidate_lon, distance_m, cover_score, concealment_score, cover_type,
              exfil_score, range_score, los_score, vector_alignment_score, evidence_weight, opsec_penalty,
              ApplyNightOperationRules(composite.total_score, time_of_day, cover_score, concealment_score),
              ComputeConfidenceLevel(composite.components, evidence_weight, vector_alignment_score))

\* _score_candidate_v2 from the component scores on; the locality
\* consistency score is the evidence weight
ScoreFromComponents(candidate_lat, candidate_lon, distance_m, cover_score, concealment_score, cover_type, exfil_score, range_score, los_score, vector_alignment_score, evidence_weight, opsec_penalty, time_of_day) ==
    ScoreFromComposite(candidate_lat, candidate_lon, distance_m, cover_score, concealment_score, cover_type,
                       exfil_score, range_score, los_score, vector_alignment_score, evidence_weight,
                       opsec_penalty,
                       ComputeCompositeScoreV2(cover_score, concealment_score, exfil_score, range_score,
                                               los_score, vector_alignment_score, evidence_weight,
                                               opsec_penalty),
                       time_of_day)

\* _score_candidate_v2 from the terrain analysis on: range score and OPSEC
\* penalty of the distance, cover type of the landuse
ScoreFromTerrain(candidate_lat, candidate_lon, distance_m, cover_data, exfil_score, los_score, alignment, drone_type, time_of_day, evidence_weight) ==
    ScoreFromComponents(candidate_lat, candidate_lon, distance_m, cover_data.cover, cover_data.concealment,
                        LanduseToCoverType(cover_data.landuse), exfil_score,
                        ComputeRangeScore(distance_m, drone_type), los_score, alignment.alignment_score,
                        evidence_weight, ComputeOpsecPenalty(distance_m, PerimeterRadiusM), time_of_day)

\* a scoring that aligns the candidate with the exit vector, as
\* score_exit_alignment would, against which the independence of the
\* prediction from the exit vector is checked for sensitivity
ScoreWithExitVector(candidate_lat, candidate_lon, target_lat, target_lon, osm_data, elevation_map, drone_type, approach_vector, exit_vector, time_of_day, evidence_weight) ==
    ScoreFromTerrain(candidate_lat, candidate_lon,
                     HaversineM(candidate_lat, candidate_lon, target_lat, target_lon),
                     ComputeCombinedCoverConcealment(candidate_lat, candidate_lon, osm_data, elevation_map,
                                                     time_of_day),
                     ScoreExfilAttractiveness(osm_data),
                     ComputeLosQualityScore(candidate_lat, candidate_lon, target_lat, target_lon,
                                            elevation_map),
                     ScoreVectorAlignment(candidate_lat, candidate_lon, target_lat, target_lon,
                                          exit_vector, VectorConfidenceWeight),
                     drone_type, time_of_day, evidence_weight)

\* _score_candidate_v2
ScoreCandidateV2(candidate_lat, candidate_lon, target_lat, target_lon, osm_data, elevation_map, drone_type, approach_vector, exit_vector, time_of_day, evidence_weight) ==
    ScoreFromTerrain(candidate_lat, candidate_lon,
                     HaversineM(candidate_lat, candidate_lon, target_lat, target_lon),
                     ComputeCombinedCoverConcealment(candidate_lat, candidate_lon, osm_data, elevation_map,
                                                     time_of_day),
                     ScoreExfilAttractiveness(osm_data),
                     ComputeLosQualityScore(candidate_lat, candidate_lon, target_lat, target_lon,
                                            elevation_map),
                     ScoreVectorAlignment(candidate_lat, candidate_lon, target_lat, target_lon,
                                          approach_vector, VectorConfidenceWeight),
                     drone_type, time_of_day, evidence_weight)

\* an unstable order that puts the later of two equal scores first, against
\* which the tie-breaking property is checked for sensitivity
LaterFirstOnTies(hotspots, j, i) ==
    \/ hotspots[j].total_score > hotspots[i].total_score
    \/ hotspots[j].total_score = hotspots[i].total_score /\ j > i

\* list.sort(key=lambda h: h.total_score, reverse=True) places hotspots[j]
\* before hotspots[i] when its score is higher or, the sort being stable,
\* when the scores are equal and it stood earlier in the list
SortsBefore(hotspots, j, i) ==
    \/ hotspots[j].total_score > hotspots[i].total_score
    \/ hotspots[j].total_score = hotspots[i].total_score /\ j < i

\* scored_hotspots.sort(key=lambda h: h.total_score, reverse=True)
SortByTotalScoreDesc(hotspots) ==
    LET n        == Len(hotspots)
        position == SubSeq([i \in 1..n |-> Cardinality({j \in 1..n : SortsBefore(hotspots, j, i)}) + 1], 1, n)
    IN  SubSeq([p \in 1..n |-> hotspots[CHOOSE i \in 1..n : position[i] = p]], 1, n)

\* a cut that keeps the whole list, against which the hotspot count is
\* checked for sensitivity
WholeList(sorted) == sorted

\* scored_hotspots[:3]
TopHotspots(sorted) == SubSeq(sorted, 1, Min(TopN, Len(sorted)))

\* f"Rank #{rank}: "
RankPrefix(rank) == "Rank #" \o ToString(rank) \o ": "

\* ranks counted from 0, against which the rank property is checked for
\* sensitivity
RanksFromZero(top_hotspots) ==
    [rank \in 1..Len(top_hotspots) |->
        [top_hotspots[rank] EXCEPT !.reasoning = << RankPrefix(rank - 1) >> \o @]]

\* for rank, hotspot in enumerate(top_hotspots, 1):
\*     hotspot.reasoning = f"Rank #{rank}: " + hotspot.reasoning
AssignRanks(top_hotspots) ==
    [rank \in 1..Len(top_hotspots) |->
        [top_hotspots[rank] EXCEPT !.reasoning = << RankPrefix(rank) >> \o @]]

----------------------------------------------------------------------------
(* operator_hideout.py: the V1 engine                                      *)

\* V1 OperatorHideoutEngine.__init__ defaults, in metres
V1PerimeterRadiusM == 500

V1MinDistanceM == 100

V1MaxDistanceM == 4000

\* hash((round(lat, digits), round(lon, digits))) % modulus.  CPython's hash
\* of a tuple of floats is a fixed function of the two rounded values; it is
\* modelled by another fixed function of the same two rounded values.
LocationHash(lat, lon, digits, modulus) ==
    LET unit == CASE digits = 3 -> 1000 [] digits = 4 -> 100 [] OTHER -> 10
    IN  (RoundDiv(lat, unit) * 7 + RoundDiv(lon, unit) * 13 + digits) % modulus

\* _offset_location: the point at distance_m and bearing_deg from (lat, lon)
\* on a sphere of radius 6371 km, to first order in distance_m / R
V1OffsetLocation(lat, lon, distance_m, bearing_deg) ==
    << lat + Div(distance_m * CosDegE4(bearing_deg), 1112),
       lon + Div(Div(distance_m * SinDegE4(bearing_deg), 1112) * 10000, CosLatE4(lat)) >>

\* _generate_candidates
V1GenerateCandidates(target_lat, target_lon) ==
    [i \in 1..(Len(GridDistancesM) * Len(GridAngles)) |->
        V1OffsetLocation(target_lat, target_lon,
                         GridDistancesM[((i - 1) \div Len(GridAngles)) + 1],
                         GridAngles[((i - 1) % Len(GridAngles)) + 1])]

\* _score_cover
V1ScoreCover(lat, lon) == 4000 + LocationHash(lat, lon, 4, 100) * 40

\* _score_distance
V1ScoreDistance(distance_m) ==
    IF distance_m < V1PerimeterRadiusM THEN 0
    ELSE IF distance_m < V1MinDistanceM THEN 2000
    ELSE IF 500 <= distance_m /\ distance_m <= 2000 THEN 10000
    ELSE IF distance_m <= V1MaxDistanceM
    THEN 10000 - ((distance_m - 2000) * 5000) \div (V1MaxDistanceM - 2000)
    ELSE 1000

\* _score_exfil
V1ScoreExfil(lat, lon) == 5000 + LocationHash(lat, lon, 3, 100) * 50

\* _score_opsec
V1ScoreOpsec(distance_m, site_type) ==
    IF distance_m < V1PerimeterRadiusM THEN 0
    ELSE LET adjusted_perimeter == IF site_type \in {"military", "airport"} THEN 1000
                                   ELSE V1PerimeterRadiusM
         IN  IF distance_m < adjusted_perimeter THEN 3000 ELSE 10000

\* _score_terrain
V1ScoreTerrain(lat, lon) == LocationHash(lat, lon, 5, 100) * 100

\* _infer_cover_type
V1InferCoverType(lat, lon) ==
    << "forest", "urban_building", "parking_lot", "rural_structure", "vehicle" >>[
        LocationHash(lat, lon, 4, 5) + 1]

\* _infer_terrain_suitability
V1InferTerrainSuitability(total_score) ==
    IF total_score >= 8000 THEN "excellent"
    ELSE IF total_score >= 6000 THEN "good"
    ELSE IF total_score >= 4000 THEN "moderate"
    ELSE IF total_score >= 2000 THEN "poor"
    ELSE "unsuitable"

\* _generate_reasoning: the ". "-joined parts, as a sequence of strings
V1GenerateReasoning(distance_m, cover_score, exfil_score, opsec_score, cover_type) ==
    << IF 500 <= distance_m /\ distance_m <= 2000
       THEN "Optimal distance (" \o ToString(distance_m) \o "m) for drone control"
       ELSE IF distance_m > 2000
       THEN "Moderate distance (" \o ToString(distance_m) \o "m) - within drone range"
       ELSE "Close distance (" \o ToString(distance_m) \o "m) - high risk but doable",
       IF cover_score >= 7000 THEN "Excellent " \o cover_type \o " cover for concealment"
       ELSE IF cover_score >= 5000 THEN "Good " \o cover_type \o " cover available"
       ELSE "Limited " \o cover_type \o " cover - more exposed",
       IF exfil_score >= 7000 THEN "Good road access for quick exfiltration"
       ELSE IF exfil_score >= 5000 THEN "Moderate exfil routes available"
       ELSE "Limited escape routes",
       IF opsec_score = 10000 THEN "Outside security perimeter - good OPSEC."
       ELSE IF opsec_score > 0 THEN "Marginal OPSEC compliance."
       ELSE "OPSEC violation - inside restricted area." >>

\* _score_location
V1ScoreLocation(lat, lon, target_lat, target_lon, site_type) ==
    LET distance_m     == HaversineM(lat, lon, target_lat, target_lon)
        cover_score    == V1ScoreCover(lat, lon)
        distance_score == V1ScoreDistance(distance_m)
        exfil_score    == V1ScoreExfil(lat, lon)
        opsec_score    == V1ScoreOpsec(distance_m, site_type)
        terrain_score  == V1ScoreTerrain(lat, lon)
        total_score    == (2500 * cover_score + 2000 * distance_score + 2000 * exfil_score
                             + 2500 * opsec_score + 1000 * terrain_score) \div 10000
        cover_type     == V1InferCoverType(lat, lon)
    IN  [latitude |-> lat, longitude |-> lon,
         cover_score |-> cover_score, distance_score |-> distance_score, exfil_score |-> exfil_score,
         opsec_score |-> opsec_score, terrain_score |-> terrain_score, total_score |-> total_score,
         cover_type |-> cover_type, terrain_suitability |-> V1InferTerrainSuitability(total_score),
         distance_to_target_m |-> distance_m,
         nearest_road_type |-> "secondary_road", nearest_road_distance_m |-> 50,
         reasoning |-> V1GenerateReasoning(distance_m, cover_score, exfil_score, opsec_score, cover_type)]

\* analyze_incident: score every candidate, sort by total_score descending,
\* keep the first three
V1AnalyzeIncident(target_lat, target_lon, site_type) ==
    LET v1_candidates   == SubSeq(V1GenerateCandidates(target_lat, target_lon), 1,
                                  Len(GridDistancesM) * Len(GridAngles))
        v1_scored       == SubSeq([i \in 1..Len(v1_candidates) |->
                                      V1ScoreLocation(v1_candidates[i][1], v1_candidates[i][2],
                                                      target_lat, target_lon, site_type)],
                                  1, Len(v1_candidates))
    IN  [target_latitude    |-> target_lat,
         target_longitude   |-> target_lon,
         predicted_hotspots |-> TopHotspots(SortByTotalScoreDesc(v1_scored)),
         search_radius_m    |-> 1000 * SearchRadiusKm,
         perimeter_radius_m |-> V1PerimeterRadiusM]

----------------------------------------------------------------------------
(* operator_hideout_v2/factory.py                                          *)

\* the V1 OperatorHotspot built from a V2 hotspot
ConvertHotspot(v2_hotspot) ==
    [latitude |-> v2_hotspot.latitude, longitude |-> v2_hotspot.longitude,
     cover_score |-> v2_hotspot.cover_score, distance_score |-> v2_hotspot.distance_score,
     exfil_score |-> v2_hotspot.exfil_score, opsec_score |-> v2_hotspot.opsec_score,
     terrain_score |-> v2_hotspot.terrain_score, total_score |-> v2_hotspot.total_score,
     cover_type |-> v2_hotspot.cover_type, terrain_suitability |-> v2_hotspot.terrain_suitability,
     distance_to_target_m |-> v2_hotspot.distance_to_target_m,
     nearest_road_type |-> v2_hotspot.nearest_road_type,
     nearest_road_distance_m |-> v2_hotspot.nearest_road_distance_m,
     reasoning |-> v2_hotspot.reasoning \o << "[" \o v2_hotspot.confidence_level \o " confidence]" >>]

\* the OperatorAnalysis returned on the V2 path
ConvertAnalysis(v2) ==
    [target_latitude    |-> v2.target_latitude,
     target_longitude   |-> v2.target_longitude,
     predicted_hotspots |-> [i \in 1..Len(v2.predicted_hotspots) |-> ConvertHotspot(v2.predicted_hotspots[i])],
     search_radius_m    |-> v2.search_radius_m,
     perimeter_radius_m |-> v2.perimeter_radius_m]

----------------------------------------------------------------------------
(* The inputs of analyze_operator_location                                 *)

\* Volkel Air Base, the centre of its registry entry
VolkelTarget == [lat |-> 51656400, lon |-> 5708300]

\* a point about 5.05 km north of Schiphol's centre: no site within 5 km
SchipholNorthTarget == [lat |-> 52355900, lon |-> 4768300]

\* a point about 2.2 km north of Eindhoven Airport's centre, and a second
\* one 0.00004 degrees further north: both round to the same cache key
EindhovenNorthTarget == [lat |-> 51470000, lon |-> 5374700]

EindhovenNorthTarget2 == [lat |-> 51470040, lon |-> 5374700]

Targets == {VolkelTarget, SchipholNorthTarget, EindhovenNorthTarget, EindhovenNorthTarget2}

\* drone type, approach vector, exit vector and time of day of a call: the
\* defaults, a long-range drone, a night flight approaching from the south,
\* and the first and the last of these with an observed exit to the north
FlightInputs ==
    { [drone_type |-> None, approach_vector |-> NoneStr, exit_vector |-> NoneStr, time_of_day |-> "day"],
      [drone_type |-> "military_medium", approach_vector |-> NoneStr, exit_vector |-> NoneStr,
       time_of_day |-> "day"],
      [drone_type |-> None, approach_vector |-> << "S" >>, exit_vector |-> NoneStr, time_of_day |-> "night"],
      [drone_type |-> None, approach_vector |-> NoneStr, exit_vector |-> << "N" >>, time_of_day |-> "day"],
      [drone_type |-> None, approach_vector |-> << "S" >>, exit_vector |-> << "N" >>,
       time_of_day |-> "night"] }

SiteTypeInputs == {"military"}

\* no evidence; one credible item; one item whose credibility is None; one
\* item whose credibility is negative
EvidenceInputs ==
    { << >>,
      << [source_type |-> "news", credibility_score |-> << "num", 8000 >>] >>,
      << [source_type |-> "social", credibility_score |-> << "none" >>] >>,
      << [source_type |-> "social", credibility_score |-> << "num", -5000 >>] >> }

Inputs ==
    { [target |-> t, site_type |-> s, use_v2 |-> u, drone_type |-> f.drone_type,
       approach_vector |-> f.approach_vector, exit_vector |-> f.exit_vector,
       time_of_day |-> f.time_of_day, evidence_items |-> e] :
         t \in Targets, s \in SiteTypeInputs, u \in BOOLEAN, f \in FlightInputs, e \in EvidenceInputs }

----------------------------------------------------------------------------
(* The state: the module-level OSM cache and one call of                   *)
(* analyze_operator_location at a time, with the locals of                 *)
(* predict_operator_locations.                                             *)

VARIABLES
    pc,               \* where the current call stands
    args,             \* the arguments of the current call
    osm_cache,        \* osm_loader._osm_cache
    site_boundary,    \* index into KNOWN_SITES, 0 for None
    osm_data,
    elevation_map,
    evidence_weight,
    candidates,
    index,            \* the position of the loop over candidates
    scored_hotspots,
    filtered_count,
    analysis_v2,      \* the OperatorAnalysisV2 returned by the V2 engine
    v2_error,         \* the exception caught by the factory, None if none
    analysis,         \* the OperatorAnalysis returned by the factory
    threads,          \* the concurrent callers of load_osm_landuse
    call,             \* a direct call of one of the service functions
    result            \* what that call returned or raised

vars ==
    << pc, args, osm_cache, site_boundary, osm_data, elevation_map, evidence_weight, candidates,
       index, scored_hotspots, filtered_count, analysis_v2, v2_error, analysis, threads, call, result >>

\* the locals of the analyze_operator_location call
analysis_vars ==
    << pc, args, site_boundary, osm_data, elevation_map, evidence_weight, candidates,
       index, scored_hotspots, filtered_count, analysis_v2, v2_error, analysis >>

\* the state of the direct calls
direct_vars == << threads, call, result >>

\* the identifiers of the concurrent callers of load_osm_landuse
Threads == {1, 2}

\* a caller of load_osm_landuse that is not in a call
IdleThread == [pc |-> "idle", lat |-> 0, lon |-> 0, osm_data |-> None, returned |-> None]

Init ==
    /\ pc = "idle"
    /\ args = None
    /\ osm_cache = << >>
    /\ site_boundary = 0
    /\ osm_data = None
    /\ elevation_map = None
    /\ evidence_weight = DefaultEvidenceWeight
    /\ candidates = << >>
    /\ index = 0
    /\ scored_hotspots = << >>
    /\ filtered_count = 0
    /\ analysis_v2 = None
    /\ v2_error = None
    /\ analysis = None
    /\ threads = [t \in Threads |-> IdleThread]
    /\ call = [function |-> None]
    /\ result = [raised |-> None]

----------------------------------------------------------------------------
(* The steps of analyze_operator_location (factory.py) and, on its V2      *)
(* path, of predict_operator_locations (engine_v2.py)                      *)

\* a loop test that filters by the engine's own perimeter radius instead of
\* the site's boundary, and one that filters nothing, against which the
\* boundary properties are checked for sensitivity
FilteredByPerimeter(site, candidate) ==
    site # 0 /\ HaversineM(KNOWN_SITES[site].center_lat, KNOWN_SITES[site].center_lon,
                           candidate.lat, candidate.lon) <= PerimeterRadiusM

NeverFiltered(site, candidate) == FALSE

\* the test of the candidate loop:
\* site_boundary and site_boundary.is_inside_boundary(candidate)
CandidateFiltered(site, candidate) ==
    site # 0 /\ IsInsideBoundary(KNOWN_SITES[site], candidate.lat, candidate.lon)

\* the OperatorAnalysisV2 returned by predict_operator_locations
MakeAnalysisV2(a, top_hotspots, weight) ==
    [target_latitude    |-> a.target.lat,
     target_longitude   |-> a.target.lon,
     predicted_hotspots |-> top_hotspots,
     search_radius_m    |-> 1000 * SearchRadiusKm,
     perimeter_radius_m |-> PerimeterRadiusM,
     drone_type         |-> a.drone_type,
     approach_vector    |-> a.approach_vector,
     exit_vector        |-> a.exit_vector,
     time_of_day        |-> a.time_of_day,
     evidence_weight    |-> weight]

\* analyze_operator_location is called: with use_v2 it enters
\* predict_operator_locations, otherwise it goes to the V1 engine
Invoke(a) ==
    /\ pc \in {"idle", "done"}
    /\ args' = a
    /\ pc' = IF a.use_v2 THEN "boundary" ELSE "v1"
    /\ site_boundary' = 0
    /\ osm_data' = None
    /\ elevation_map' = None
    /\ evidence_weight' = DefaultEvidenceWeight
    /\ candidates' = << >>
    /\ index' = 0
    /\ scored_hotspots' = << >>
    /\ filtered_count' = 0
    /\ analysis_v2' = None
    /\ v2_error' = None
    /\ analysis' = None
    /\ UNCHANGED osm_cache
    /\ UNCHANGED direct_vars

\* site_boundary = get_site_boundary_by_location(target_lat, target_lon, radius_km=5.0)
ResolveBoundary ==
    /\ pc = "boundary"
    /\ site_boundary' = GetSiteBoundaryByLocation(args.target.lat, args.target.lon, SiteLookupRadiusM)
    /\ pc' = "terrain"
    /\ UNCHANGED << args, osm_cache, osm_data, elevation_map, evidence_weight, candidates, index,
                    scored_hotspots, filtered_count, analysis_v2, v2_error, analysis >>
    /\ UNCHANGED direct_vars

\* osm_data = load_osm_landuse(...); elevation_map = load_elevation(...)
LoadTerrain ==
    /\ pc = "terrain"
    /\ LET loaded == LoadOsmLanduse(osm_cache, args.target.lat, args.target.lon, SearchRadiusKm)
       IN  /\ osm_data' = loaded[1]
           /\ osm_cache' = loaded[2]
    /\ elevation_map' = LoadElevation(args.target.lat, args.target.lon, SearchRadiusKm)
    /\ pc' = "evidence"
    /\ UNCHANGED << args, site_boundary, evidence_weight, candidates, index, scored_hotspots,
                    filtered_count, analysis_v2, v2_error, analysis >>
    /\ UNCHANGED direct_vars

\* evidence_weight = compute_evidence_weight(evidence_items)["total_weight"]
\* when there is evidence, the default 0.5 otherwise
ComputeEvidence ==
    /\ pc = "evidence"
    /\ ~EvidenceWeightRaises(args.evidence_items)
    /\ evidence_weight' = IF args.evidence_items # << >>
                          THEN ComputeEvidenceWeight(args.evidence_items)
                          ELSE DefaultEvidenceWeight
    /\ pc' = "grid"
    /\ UNCHANGED << args, osm_cache, site_boundary, osm_data, elevation_map, candidates, index,
                    scored_hotspots, filtered_count, analysis_v2, v2_error, analysis >>
    /\ UNCHANGED direct_vars

\* compute_evidence_weight raises: the exception leaves the V2 engine
EvidenceRaise ==
    /\ pc = "evidence"
    /\ EvidenceWeightRaises(args.evidence_items)
    /\ v2_error' = "TypeError"
    /\ pc' = "raised"
    /\ UNCHANGED << args, osm_cache, site_boundary, osm_data, elevation_map, evidence_weight,
                    candidates, index, scored_hotspots, filtered_count, analysis_v2, analysis >>
    /\ UNCHANGED direct_vars

\* candidates = self._generate_candidate_grid(target_lat, target_lon)
GenerateGrid ==
    /\ pc = "grid"
    /\ candidates' = GenerateCandidateGrid(args.target.lat, args.target.lon)
    /\ index' = 1
    /\ scored_hotspots' = << >>
    /\ filtered_count' = 0
    /\ pc' = "loop"
    /\ UNCHANGED << args, osm_cache, site_boundary, osm_data, elevation_map, evidence_weight,
                    analysis_v2, v2_error, analysis >>
    /\ UNCHANGED direct_vars

\* one pass of the loop for a candidate inside the boundary:
\* filtered_count += 1; continue
FilterCandidate ==
    /\ pc = "loop"
    /\ index <= Len(candidates)
    /\ CandidateFiltered(site_boundary, candidates[index])
    /\ filtered_count' = filtered_count + 1
    /\ index' = index + 1
    /\ UNCHANGED << pc, args, osm_cache, site_boundary, osm_data, elevation_map, evidence_weight,
                    candidates, scored_hotspots, analysis_v2, v2_error, analysis >>
    /\ UNCHANGED direct_vars

\* the hotspot _score_candidate_v2 builds for the candidate at index
ScoredCandidate ==
    ScoreCandidateV2(candidates[index].lat, candidates[index].lon, args.target.lat, args.target.lon,
                     osm_data, elevation_map, args.drone_type, args.approach_vector,
                     args.exit_vector, args.time_of_day, evidence_weight)

\* scored_hotspots.append(hotspot); when OperatorHotspotV2(...) rejects a
\* score outside [0, 1], the exception leaves the V2 engine instead
AppendScored(hotspot) ==
    IF ValidHotspot(hotspot)
    THEN /\ scored_hotspots' = Append(scored_hotspots, hotspot)
         /\ index' = index + 1
         /\ UNCHANGED << pc, v2_error >>
    ELSE /\ v2_error' = "ValidationError"
         /\ pc' = "raised"
         /\ UNCHANGED << scored_hotspots, index >>

\* one pass of the loop for a candidate outside the boundary
ScoreCandidate ==
    /\ pc = "loop"
    /\ index <= Len(candidates)
    /\ ~CandidateFiltered(site_boundary, candidates[index])
    /\ AppendScored(ScoredCandidate)
    /\ UNCHANGED << args, osm_cache, site_boundary, osm_data, elevation_map, evidence_weight,
                    candidates, filtered_count, analysis_v2, analysis >>
    /\ UNCHANGED direct_vars

\* after the loop: sort by total_score, take the top 3, assign the ranks,
\* return the OperatorAnalysisV2
RankHotspots ==
    /\ pc = "loop"
    /\ index > Len(candidates)
    /\ analysis_v2' = MakeAnalysisV2(args, AssignRanks(TopHotspots(SortByTotalScoreDesc(scored_hotspots))),
                                     evidence_weight)
    /\ pc' = "convert"
    /\ UNCHANGED << args, osm_cache, site_boundary, osm_data, elevation_map, evidence_weight,
                    candidates, index, scored_hotspots, filtered_count, v2_error, analysis >>
    /\ UNCHANGED direct_vars

\* the factory converts the V2 analysis to the V1 format and returns it
ConvertToV1 ==
    /\ pc = "convert"
    /\ analysis' = ConvertAnalysis(analysis_v2)
    /\ pc' = "done"
    /\ UNCHANGED << args, osm_cache, site_boundary, osm_data, elevation_map, evidence_weight,
                    candidates, index, scored_hotspots, filtered_count, analysis_v2, v2_error >>
    /\ UNCHANGED direct_vars

\* a call inside the try block raises: the boundary lookup, the terrain
\* loading or the conversion to the V1 format; the exception reaches the
\* except clause of the factory
RaiseInTry ==
    /\ pc \in {"boundary", "terrain", "convert"}
    /\ v2_error' = "Exception"
    /\ pc' = "raised"
    /\ UNCHANGED << args, osm_cache, site_boundary, osm_data, elevation_map, evidence_weight,
                    candidates, index, scored_hotspots, filtered_count, analysis_v2, analysis >>
    /\ UNCHANGED direct_vars

\* a fallback that returns the V2 hotspots scored before the failure
ReturnScoredSoFar ==
    /\ pc = "raised"
    /\ analysis' = ConvertAnalysis(MakeAnalysisV2(args, scored_hotspots, evidence_weight))
    /\ pc' = "done"
    /\ UNCHANGED << args, osm_cache, site_boundary, osm_data, elevation_map, evidence_weight,
                    candidates, index, scored_hotspots, filtered_count, analysis_v2, v2_error >>
    /\ UNCHANGED direct_vars

\* except Exception: the factory falls back to the V1 engine
FallbackV1 ==
    /\ pc = "raised"
    /\ analysis' = V1AnalyzeIncident(args.target.lat, args.target.lon, args.site_type)
    /\ pc' = "done"
    /\ UNCHANGED << args, osm_cache, site_boundary, osm_data, elevation_map, evidence_weight,
                    candidates, index, scored_hotspots, filtered_count, analysis_v2, v2_error >>
    /\ UNCHANGED direct_vars

\* use_v2 = False: the factory calls the V1 engine directly
AnalyzeV1 ==
    /\ pc = "v1"
    /\ analysis' = V1AnalyzeIncident(args.target.lat, args.target.lon, args.site_type)
    /\ pc' = "done"
    /\ UNCHANGED << args, osm_cache, site_boundary, osm_data, elevation_map, evidence_weight,
                    candidates, index, scored_hotspots, filtered_count, analysis_v2, v2_error >>
    /\ UNCHANGED direct_vars

Next ==
    \/ \E a \in Inputs : Invoke(a)
    \/ ResolveBoundary
    \/ LoadTerrain
    \/ ComputeEvidence
    \/ EvidenceRaise
    \/ GenerateGrid
    \/ FilterCandidate
    \/ ScoreCandidate
    \/ RankHotspots
    \/ ConvertToV1
    \/ RaiseInTry
    \/ FallbackV1
    \/ AnalyzeV1

Spec == Init /\ [][Next]_vars

----------------------------------------------------------------------------
(* predict_operator_locations as a function of its arguments and of the   *)
(* OSM data load_osm_landuse hands it                                      *)

\* the evidence weight of a call
EvidenceWeightOf(a) ==
    IF a.evidence_items # << >> THEN ComputeEvidenceWeight(a.evidence_items) ELSE DefaultEvidenceWeight

\* the candidates that pass the boundary test, in generation order
SurvivingCandidates(site, grid) == SelectSeq(grid, LAMBDA c : ~CandidateFiltered(site, c))

\* the scored hotspots of the surviving candidates
ScoreSurvivors(a, surviving, data, elevations) ==
    SubSeq([i \in 1..Len(surviving) |->
               ScoreCandidateV2(surviving[i].lat, surviving[i].lon, a.target.lat, a.target.lon, data,
                                elevations, a.drone_type, a.approach_vector, a.exit_vector,
                                a.time_of_day, EvidenceWeightOf(a))],
           1, Len(surviving))

\* the ranked hotspots predict_operator_locations returns for call a when
\* load_osm_landuse returns data
PredictWith(a, data) ==
    AssignRanks(TopHotspots(SortByTotalScoreDesc(
        ScoreSurvivors(a,
                       SurvivingCandidates(GetSiteBoundaryByLocation(a.target.lat, a.target.lon,
                                                                     SiteLookupRadiusM),
                                           GenerateCandidateGrid(a.target.lat, a.target.lon)),
                       data,
                       LoadElevation(a.target.lat, a.target.lon, SearchRadiusKm)))))

\* the ranked hotspots of call a in a process whose OSM cache is empty
PredictFromEmptyCache(a) ==
    PredictWith(a, LoadOsmLanduse(<< >>, a.target.lat, a.target.lon, SearchRadiusKm)[1])

----------------------------------------------------------------------------
(* Properties of predict_operator_locations                                *)

\* predict_operator_locations has returned its analysis to the factory
Returned == pc \in {"convert", "done"} /\ args.use_v2 /\ v2_error = None

ReturnedHotspots == analysis_v2.predicted_hotspots

\* the boundary get_site_boundary_by_location resolves for the target
TargetBoundary == GetSiteBoundaryByLocation(args.target.lat, args.target.lon, SiteLookupRadiusM)

\* candidate i lies inside the boundary the call resolved
InsideResolved(i) ==
    site_boundary # 0 /\ IsInsideBoundary(KNOWN_SITES[site_boundary], candidates[i].lat, candidates[i].lon)

\* hotspot h stands at candidate i
HotspotAt(h, i) == h.latitude = candidates[i].lat /\ h.longitude = candidates[i].lon

\* C1: when get_site_boundary_by_location resolves a boundary B for the
\* target, every hotspot predict_operator_locations returns is outside B
\* (B.is_inside_boundary is False), for every drone type, vector, time of
\* day and evidence
C1_HotspotsOutsideBoundary ==
    (Returned /\ TargetBoundary # 0) =>
        \A k \in 1..Len(ReturnedHotspots) :
            ~IsInsideBoundary(KNOWN_SITES[TargetBoundary], ReturnedHotspots[k].latitude,
                              ReturnedHotspots[k].longitude)

\* a call at a known site returned hotspots after candidates were filtered
C1_Witness ==
    /\ Returned
    /\ TargetBoundary # 0
    /\ Len(ReturnedHotspots) > 0
    /\ filtered_count > 0

\* C4: the boundary test precedes scoring: of the candidates the loop has
\* passed, those inside the resolved boundary are counted in filtered_count
\* and have no scored hotspot, and the scored hotspots are those of the
\* candidates outside it
C4_FilterPrecedesScoring ==
    LET passed  == 1..(index - 1)
        inside  == {i \in passed : InsideResolved(i)}
        outside == passed \ inside
    IN  /\ filtered_count = Cardinality(inside)
        /\ Len(scored_hotspots) = Cardinality(outside)
        /\ \A k \in 1..Len(scored_hotspots) : \E i \in outside : HotspotAt(scored_hotspots[k], i)
        /\ \A i \in inside : \A k \in 1..Len(scored_hotspots) : ~HotspotAt(scored_hotspots[k], i)

\* the loop has ended after filtering some candidates and scoring others
C4_Witness ==
    /\ pc = "convert"
    /\ index = Len(candidates) + 1
    /\ filtered_count > 0
    /\ Len(scored_hotspots) > 0
    /\ \E i \in 1..Len(candidates) : InsideResolved(i)

\* C5: for the Volkel target the engine generates 72 candidates, filters
\* exactly the 32 candidates of the ladder distances 200, 500, 1000 and
\* 1500 m, scores the other 40 and returns exactly 3 hotspots, each farther
\* than 1700 m from the target
C5_VolkelScenario ==
    (Returned /\ args.target = VolkelTarget) =>
        /\ Len(candidates) = 72
        /\ filtered_count = 32
        /\ Len(scored_hotspots) = 40
        /\ \A i \in 1..Len(candidates) :
              (candidates[i].distance_m \in {200, 500, 1000, 1500})
                <=> ~(\E k \in 1..Len(scored_hotspots) : HotspotAt(scored_hotspots[k], i))
        /\ Len(ReturnedHotspots) = 3
        /\ \A k \in 1..Len(ReturnedHotspots) : ReturnedHotspots[k].distance_to_target_m > 1700

\* a call for the Volkel target has returned
C5_Witness ==
    /\ Returned
    /\ args.target = VolkelTarget
    /\ KNOWN_SITES[site_boundary].site_name = "Volkel Air Base"
    /\ pc = "done"

\* the candidates that survive the boundary filter
Survivors == {i \in 1..Len(candidates) : ~InsideResolved(i)}

C6_RankedOrder ==
    Returned =>
        /\ \A k \in 1..(Len(ReturnedHotspots) - 1) :
              ReturnedHotspots[k].total_score >= ReturnedHotspots[k + 1].total_score
        /\ \A k \in 1..Len(ReturnedHotspots) :
              /\ Head(ReturnedHotspots[k].reasoning) = "Rank #" \o ToString(k) \o ": "
              /\ \A m \in 2..Len(ReturnedHotspots[k].reasoning) :
                    ReturnedHotspots[k].reasoning[m] \notin {"Rank #" \o ToString(r) \o ": " : r \in 0..Len(candidates)}

\* three ranked hotspots were returned, with a strict drop in score
C6_Witness ==
    /\ Returned
    /\ Len(ReturnedHotspots) = 3
    /\ ReturnedHotspots[1].total_score > ReturnedHotspots[3].total_score
    /\ Len(ReturnedHotspots[3].reasoning) > 1

\* the position of hotspot h in the order the candidates were generated
GenerationIndex(h) == CHOOSE i \in 1..Len(candidates) : HotspotAt(h, i)

\* C7: candidates are generated by distance, then bearing; of two scored
\* candidates with equal total_score the one generated earlier is ranked
\* first, and the top-3 cut never keeps the later-generated of the two while
\* dropping the earlier one
C7_TiesByGenerationOrder ==
    Returned =>
        /\ \A i, j \in 1..Len(candidates) :
              i < j => \/ candidates[i].distance_m < candidates[j].distance_m
                       \/ /\ candidates[i].distance_m = candidates[j].distance_m
                          /\ candidates[i].bearing_deg < candidates[j].bearing_deg
        /\ \A p, q \in 1..Len(ReturnedHotspots) :
              (p < q /\ ReturnedHotspots[p].total_score = ReturnedHotspots[q].total_score)
                => GenerationIndex(ReturnedHotspots[p]) < GenerationIndex(ReturnedHotspots[q])
        /\ \A p \in 1..Len(ReturnedHotspots) : \A k \in 1..Len(scored_hotspots) :
              (/\ scored_hotspots[k].total_score = ReturnedHotspots[p].total_score
               /\ \A q \in 1..Len(ReturnedHotspots) :
                     GenerationIndex(ReturnedHotspots[q]) # GenerationIndex(scored_hotspots[k]))
                => GenerationIndex(ReturnedHotspots[p]) < GenerationIndex(scored_hotspots[k])

\* two of the returned hotspots have equal total_score, and the cut dropped
\* a scored candidate whose total_score equals that of a returned one
C7_Witness ==
    /\ Returned
    /\ \E p, q \in 1..Len(ReturnedHotspots) :
          /\ p < q
          /\ ReturnedHotspots[p].total_score = ReturnedHotspots[q].total_score
          /\ GenerationIndex(ReturnedHotspots[p]) < GenerationIndex(ReturnedHotspots[q])
    /\ \E p \in 1..Len(ReturnedHotspots) : \E k \in 1..Len(scored_hotspots) :
          /\ scored_hotspots[k].total_score = ReturnedHotspots[p].total_score
          /\ \A q \in 1..Len(ReturnedHotspots) :
                GenerationIndex(ReturnedHotspots[q]) # GenerationIndex(scored_hotspots[k])

\* C2: for every target, no hotspot predict_operator_locations returns
\* lies inside any boundary of the KNOWN_SITES registry, whether or not that
\* boundary is the one found within the lookup radius
C2_OutsideEveryKnownSite ==
    Returned =>
        \A k \in 1..Len(ReturnedHotspots) : \A s \in 1..Len(KNOWN_SITES) :
            ~IsInsideBoundary(KNOWN_SITES[s], ReturnedHotspots[k].latitude, ReturnedHotspots[k].longitude)

\* the factory has returned the V1 engine's analysis after the V2 engine raised
FellBack == pc = "done" /\ args.use_v2 /\ v2_error # None

\* C3: when the V2 engine raises and the factory falls back to the V1
\* engine, no hotspot of the returned analysis lies inside the known site
\* boundary nearest to the target
C3_FallbackKeepsVeto ==
    (FellBack /\ TargetBoundary # 0) =>
        \A k \in 1..Len(analysis.predicted_hotspots) :
            ~IsInsideBoundary(KNOWN_SITES[TargetBoundary], analysis.predicted_hotspots[k].latitude,
                              analysis.predicted_hotspots[k].longitude)

\* C9: an invocation returns the candidates and the ranked hotspots that an
\* invocation with the same arguments returns in a process whose terrain
\* cache is empty, whatever earlier invocations left in the cache
C9_Deterministic ==
    pc = "convert" =>
        /\ candidates = GenerateCandidateGrid(args.target.lat, args.target.lon)
        /\ ReturnedHotspots = PredictFromEmptyCache(args)

\* C10: the data load_osm_landuse returns, cached or not, is the data the
\* uncached computation yields for the same call
C10_PureMemoization ==
    pc = "evidence" =>
        osm_data = GenerateSyntheticOsmData(args.target.lat, args.target.lon, SearchRadiusKm)

----------------------------------------------------------------------------
(* Concurrent callers of load_osm_landuse (terrain/osm_loader.py): the     *)
(* lookup, the generation of the data and the store into _osm_cache are    *)
(* separate steps, between which another caller may run.                    *)

\* the regions the concurrent callers ask for
RaceTargets == {VolkelTarget, EindhovenNorthTarget, EindhovenNorthTarget2}

\* the cache key of the call caller t is in
ThreadKey(t) == CacheKey(threads[t].lat, threads[t].lon, SearchRadiusKm)

\* caller t enters load_osm_landuse(lat, lon, 4.0)
RaceCall(t, target) ==
    /\ threads[t].pc = "idle"
    /\ threads' = [threads EXCEPT ![t] = [@ EXCEPT !.pc = "lookup", !.lat = target.lat, !.lon = target.lon]]
    /\ UNCHANGED << osm_cache, analysis_vars, call, result >>

\* if cache_key in _osm_cache: return _osm_cache[cache_key]
RaceHit(t) ==
    /\ threads[t].pc = "lookup"
    /\ ThreadKey(t) \in DOMAIN osm_cache
    /\ threads' = [threads EXCEPT ![t] = [@ EXCEPT !.pc = "returned", !.returned = osm_cache[ThreadKey(t)]]]
    /\ UNCHANGED << osm_cache, analysis_vars, call, result >>

\* the key is not in the cache: the caller goes on to generate the data
RaceMiss(t) ==
    /\ threads[t].pc = "lookup"
    /\ ThreadKey(t) \notin DOMAIN osm_cache
    /\ threads' = [threads EXCEPT ![t] = [@ EXCEPT !.pc = "generate"]]
    /\ UNCHANGED << osm_cache, analysis_vars, call, result >>

\* osm_data = _generate_synthetic_osm_data(lat, lon, radius_km)
RaceGenerate(t) ==
    /\ threads[t].pc = "generate"
    /\ threads' = [threads EXCEPT ![t] = [@ EXCEPT !.pc = "store",
                       !.osm_data = GenerateSyntheticOsmData(threads[t].lat, threads[t].lon, SearchRadiusKm)]]
    /\ UNCHANGED << osm_cache, analysis_vars, call, result >>

\* _osm_cache[cache_key] = osm_data; return osm_data
RaceStore(t) ==
    /\ threads[t].pc = "store"
    /\ osm_cache' = (ThreadKey(t) :> threads[t].osm_data) @@ osm_cache
    /\ threads' = [threads EXCEPT ![t] = [@ EXCEPT !.pc = "returned", !.returned = threads[t].osm_data]]
    /\ UNCHANGED << analysis_vars, call, result >>

NextRace ==
    \/ \E t \in Threads, target \in RaceTargets : RaceCall(t, target)
    \/ \E t \in Threads : RaceHit(t)
    \/ \E t \in Threads : RaceMiss(t)
    \/ \E t \in Threads : RaceGenerate(t)
    \/ \E t \in Threads : RaceStore(t)

SpecRace == Init /\ [][NextRace]_vars

\* both callers have returned from calls that map to the same cache key
BothReturnedSameKey ==
    /\ \A t \in Threads : threads[t].pc = "returned"
    /\ ThreadKey(1) = ThreadKey(2)

\* C11: when two concurrent calls of load_osm_landuse map to the same cache
\* key, both callers receive equal data and the cache entry of the key
\* equals that data, whatever the interleaving of their steps
C11_RaceIsBenign ==
    BothReturnedSameKey =>
        /\ threads[1].returned = threads[2].returned
        /\ osm_cache[ThreadKey(1)] = threads[1].returned

----------------------------------------------------------------------------
(* site_boundary.py: construction of a SiteBoundary and the polygonal      *)
(* branch of is_inside_boundary. A boundary is a record; an argument that  *)
(* is None is a field the record does not have. A polygon is a sequence of *)
(* << lat, lon >> vertices.                                                *)

\* a / b for a divisor of either sign, rounded toward zero
SignedDiv(a, b) == IF b > 0 THEN Div(a, b) ELSE Div(-a, -b)

\* SiteBoundary.__init__: the object, or the ValueError it raises
SiteBoundaryInit(fields) ==
    IF "radius_m" \notin DOMAIN fields /\ "polygon_vertices" \notin DOMAIN fields
    THEN [raised |-> "ValueError"]
    ELSE [raised |-> None, value |-> fields]

\* _point_in_polygon, one pass of its loop: the edge from p1 to p2 flips
\* `inside`
EdgeToggles(lat, lon, p1, p2) ==
    /\ lon > Min(p1[2], p2[2])
    /\ lon <= Max(p1[2], p2[2])
    /\ lat <= Max(p1[1], p2[1])
    /\ \/ p1[1] = p2[1]
       \/ lat <= SignedDiv((lon - p1[2]) * (p2[1] - p1[1]), p2[2] - p1[2]) + p1[1]

\* _point_in_polygon: `inside` after the loop over the edges
PointInPolygon(lat, lon, vertices) ==
    LET n == Len(vertices)
    IN  Cardinality({i \in 1..n : EdgeToggles(lat, lon, vertices[i], vertices[(i % n) + 1])}) % 2 = 1

\* _distance_to_segment, in metres: the projection parameter t is computed
\* on the raw degree differences (t4 is t in 1e-4 units)
DistanceToSegment(lat, lon, v1, v2) ==
    LET dx  == v2[2] - v1[2]
        dy  == v2[1] - v1[1]
        num == (lon - v1[2]) * dx + (lat - v1[1]) * dy
        den == dx * dx + dy * dy
    IN  IF dx = 0 /\ dy = 0 THEN HaversineM(lat, lon, v1[1], v1[2])
        ELSE IF num < 0 THEN HaversineM(lat, lon, v1[1], v1[2])
        ELSE IF num > den THEN HaversineM(lat, lon, v2[1], v2[2])
        ELSE LET t4 == IF den >= 10000 THEN Div(num, den \div 10000) ELSE Div(num * 10000, den)
             IN  HaversineM(lat, lon, v1[1] + Div(t4 * dy, 10000), v1[2] + Div(t4 * dx, 10000))

RECURSIVE DistanceToPolygon(_, _, _, _, _)
\* _distance_to_polygon, in metres, from edge i on
DistanceToPolygon(lat, lon, vertices, i, min_distance) ==
    IF i > Len(vertices) THEN min_distance
    ELSE DistanceToPolygon(lat, lon, vertices, i + 1,
                           Min(min_distance,
                               DistanceToSegment(lat, lon, vertices[i], vertices[(i % Len(vertices)) + 1])))

\* SiteBoundary.is_inside_boundary, with its three branches
IsInsideBoundaryOf(boundary, lat, lon) ==
    IF "radius_m" \in DOMAIN boundary THEN IsInsideBoundary(boundary, lat, lon)
    ELSE IF "polygon_vertices" \in DOMAIN boundary
    THEN \/ PointInPolygon(lat, lon, boundary.polygon_vertices)
         \/ DistanceToPolygon(lat, lon, boundary.polygon_vertices, 1, Infinity) <= boundary.safety_buffer_m
    ELSE FALSE

----------------------------------------------------------------------------
(* Direct calls of the service functions, one per behaviour: `call` holds  *)
(* the function and its arguments, `result` what it returned (value) or    *)
(* raised.                                                                 *)

\* the circle of the boundary tests (tests/test_site_boundary.py)
TestCircle ==
    [site_name |-> "Test Site", center_lat |-> 51656400, center_lon |-> 5708300,
     radius_m |-> 1000, safety_buffer_m |-> 200]

\* the square of the polygon tests, and a right triangle whose hypotenuse
\* runs from its south-west to its north-east corner
SquareVertices ==
    << << 51660000, 5700000 >>, << 51660000, 5720000 >>, << 51680000, 5720000 >>, << 51680000, 5700000 >> >>

TriangleVertices ==
    << << 51660000, 5700000 >>, << 51660000, 5720000 >>, << 51680000, 5720000 >> >>

\* the arguments SiteBoundary is constructed with: a circle, two polygons,
\* both shapes at once, and neither
BoundaryInputs ==
    { TestCircle,
      [site_name |-> "Test Site", center_lat |-> 51670000, center_lon |-> 5710000,
       polygon_vertices |-> SquareVertices, safety_buffer_m |-> 100],
      [site_name |-> "Test Site", center_lat |-> 51667000, center_lon |-> 5713000,
       polygon_vertices |-> TriangleVertices, safety_buffer_m |-> 100],
      [site_name |-> "Test Site", center_lat |-> 51656400, center_lon |-> 5708300,
       radius_m |-> 1000, polygon_vertices |-> SquareVertices, safety_buffer_m |-> 200],
      [site_name |-> "Test Site", center_lat |-> 51656400, center_lon |-> 5708300,
       safety_buffer_m |-> 200] }

\* the points is_inside_boundary is asked about: the points of the tests,
\* the point due north of the circle's centre at exactly radius + buffer,
\* points beside the triangle's hypotenuse, and a grid over the shapes
PointInputs ==
    { << 51656400, 5708300 >>, << 51657400, 5708300 >>, << 51674400, 5708300 >>,
      << 51683400, 5708300 >>, << 51666300, 5708300 >>, << 51668100, 5708300 >>,
      << 51667192, 5708300 >>, << 51667200, 5708300 >>,
      << 51650000, 5690000 >>, << 51690000, 5730000 >>,
      << 51670000, 5708500 >>, << 51670000, 5708400 >>, << 51670000, 5708200 >> }
    \cup { << 51655000 + 2500 * i, 5695000 + 2500 * j >> : i \in 0..12, j \in 0..12 }

\* SiteBoundary(...) is constructed
CallSiteBoundary(fields) ==
    /\ call.function = None
    /\ call' = [function |-> "SiteBoundary", fields |-> fields]
    /\ result' = SiteBoundaryInit(fields)
    /\ UNCHANGED << osm_cache, analysis_vars, threads >>

\* boundary.is_inside_boundary(lat, lon), on a boundary that could be constructed
CallIsInsideBoundary(boundary, point) ==
    /\ call.function = None
    /\ SiteBoundaryInit(boundary).raised = None
    /\ call' = [function |-> "is_inside_boundary", boundary |-> boundary, lat |-> point[1], lon |-> point[2]]
    /\ result' = [raised |-> None, value |-> IsInsideBoundaryOf(boundary, point[1], point[2])]
    /\ UNCHANGED << osm_cache, analysis_vars, threads >>

\* the locations and the radii, in metres, get_site_boundary_by_location is
\* called with: the targets, the "not found" location of the tests, two
\* locations between Volkel and Eindhoven
LocationInputs ==
    Targets \cup { [lat |-> 52000000, lon |-> 3000000], [lat |-> 51550000, lon |-> 5540000],
                   [lat |-> 51500000, lon |-> 5450000], [lat |-> 51450000, lon |-> 5374700] }

LookupRadiiM == {0, 2200, 2300, 5000, 20000, 40000, 150000}

\* get_site_boundary_by_location(lat, lon, radius_km): the value is the
\* index of the site in KNOWN_SITES, 0 for None
CallGetSiteBoundaryByLocation(location, radius_m) ==
    /\ call.function = None
    /\ call' = [function |-> "get_site_boundary_by_location", lat |-> location.lat, lon |-> location.lon,
                radius_m |-> radius_m]
    /\ result' = [raised |-> None, value |-> GetSiteBoundaryByLocation(location.lat, location.lon, radius_m)]
    /\ UNCHANGED << osm_cache, analysis_vars, threads >>

\* the direction strings parse_direction and score_vector_alignment are
\* called with: None, the empty string, the 16 labels, some of them in
\* lower or mixed case or with blanks around them, the 8 full names in
\* upper case and capitalised, a blank string, and other texts
DirectionInputs ==
    { NoneStr, << >> }
    \cup { DIRECTION_TO_DEGREES[k].key : k \in 1..Len(DIRECTION_TO_DEGREES) }
    \cup { FullNames[k].key : k \in 1..Len(FullNames) }
    \cup { << "n", "e" >>, << "s", "s", "W" >>, << " ", "S", "W", " " >>, << "w" >>,
           << "N", "o", "r", "t", "h" >>, << "N", "o", "r", "t", "h", "e", "a", "s", "t" >>,
           << "E", "a", "s", "t" >>, << "S", "o", "u", "t", "h", "e", "a", "s", "t" >>,
           << "S", "o", "u", "t", "h" >>, << "S", "o", "u", "t", "h", "w", "e", "s", "t" >>,
           << "W", "e", "s", "t" >>, << "N", "o", "r", "t", "h", "w", "e", "s", "t" >>,
           << " ", " ", " " >>, << "u", "n", "k", "n", "o", "w", "n" >>, << "u", "p" >>,
           << "4", "5" >>, << "l", "e", "f", "t" >> }

\* the hotspots score_vector_alignment is called with: the candidates of
\* the 1 km and of the 4 km ring around Volkel, one per bearing
AlignmentCandidates ==
    { GenerateCandidateGrid(VolkelTarget.lat, VolkelTarget.lon)[i] : i \in (17..24) \cup (65..72) }

\* parse_direction(direction_str)
CallParseDirection(direction_str) ==
    /\ call.function = None
    /\ call' = [function |-> "parse_direction", direction_str |-> direction_str]
    /\ result' = [raised |-> None, value |-> ParseDirection(direction_str)]
    /\ UNCHANGED << osm_cache, analysis_vars, threads >>

\* score_vector_alignment(hotspot, target, approach_vector, confidence_weight)
\* for a hotspot at a candidate of the grid around the target
CallScoreVectorAlignment(target, candidate, approach_vector, confidence_weight) ==
    /\ call.function = None
    /\ call' = [function |-> "score_vector_alignment", target |-> target, candidate |-> candidate,
                approach_vector |-> approach_vector, confidence_weight |-> confidence_weight]
    /\ result' = [raised |-> None,
                  value  |-> ScoreVectorAlignment(candidate.lat, candidate.lon, target.lat, target.lon,
                                                  approach_vector, confidence_weight)]
    /\ UNCHANGED << osm_cache, analysis_vars, threads >>

\* six evidence items of credibility 1 from six kinds of source (the
\* largest evidence weight) and one item of credibility 0 (the smallest)
StrongEvidence ==
    [i \in 1..6 |-> [source_type |-> << "news", "social", "official", "sensor", "forum", "police" >>[i],
                     credibility_score |-> << "num", 10000 >>]]

WeakEvidence == << [source_type |-> "social", credibility_score |-> << "num", 0 >>] >>

\* approach vector, time of day and evidence items of the scoring calls
ScoringContexts ==
    { << NoneStr, "day", << >> >>, << << "N", "E" >>, "night", StrongEvidence >>,
      << << "W" >>, "day", WeakEvidence >>, << NoneStr, "night", StrongEvidence >> }

\* the terrain data of a target is loaded, as predict_operator_locations
\* does before it scores: load_osm_landuse and load_elevation
CallLoadTerrain(target) ==
    /\ call.function = None
    /\ call' = [function |-> "load_terrain", target |-> target]
    /\ osm_data' = LoadOsmLanduse(osm_cache, target.lat, target.lon, SearchRadiusKm)[1]
    /\ osm_cache' = LoadOsmLanduse(osm_cache, target.lat, target.lon, SearchRadiusKm)[2]
    /\ elevation_map' = LoadElevation(target.lat, target.lon, SearchRadiusKm)
    /\ UNCHANGED << pc, args, site_boundary, evidence_weight, candidates, index, scored_hotspots,
                    filtered_count, analysis_v2, v2_error, analysis, threads, result >>

\* engine._score_candidate_v2 for candidate i of the grid around the target
\* whose terrain data is loaded: the hotspot, or the ValidationError of
\* OperatorHotspotV2
CallScoreCandidate(i, drone_type, approach_vector, time_of_day, evidence_items) ==
    /\ call.function = "load_terrain"
    /\ call' = [function |-> "_score_candidate_v2", target |-> call.target, index |-> i,
                drone_type |-> drone_type, approach_vector |-> approach_vector,
                time_of_day |-> time_of_day, evidence_items |-> evidence_items]
    /\ LET candidate == GenerateCandidateGrid(call.target.lat, call.target.lon)[i]
           hotspot   == ScoreCandidateV2(candidate.lat, candidate.lon, call.target.lat, call.target.lon,
                                         osm_data, elevation_map, drone_type, approach_vector, NoneStr,
                                         time_of_day, EvidenceWeightOf([evidence_items |-> evidence_items]))
       IN  result' = IF ValidHotspot(hotspot) THEN [raised |-> None, value |-> hotspot]
                     ELSE [raised |-> "ValidationError"]
    /\ UNCHANGED << osm_cache, analysis_vars, threads >>

\* the evidence lists compute_evidence_weight is called with: none, one item
\* of credibility 0.9, two such items from the same kind of source, one item
\* of negative credibility, one item without credibility, the strongest and
\* the weakest evidence
EvidenceWeightInputs ==
    { << >>,
      << [source_type |-> "news", credibility_score |-> << "num", 9000 >>] >>,
      << [source_type |-> "news", credibility_score |-> << "num", 9000 >>],
         [source_type |-> "news", credibility_score |-> << "num", 9000 >>] >>,
      << [source_type |-> "social", credibility_score |-> << "num", -5000 >>] >>,
      << [source_type |-> "social", credibility_score |-> << "missing" >>] >>,
      StrongEvidence, WeakEvidence }

\* compute_evidence_weight(evidence_items)["total_weight"]
CallComputeEvidenceWeight(evidence_items) ==
    /\ call.function = None
    /\ call' = [function |-> "compute_evidence_weight", evidence_items |-> evidence_items]
    /\ result' = IF EvidenceWeightRaises(evidence_items) THEN [raised |-> "TypeError"]
                 ELSE [raised |-> None, value |-> ComputeEvidenceWeight(evidence_items)]
    /\ UNCHANGED << osm_cache, analysis_vars, threads >>

\* the distances, in metres, compute_range_score is called with: for every
\* profile 0, min_range, optimal_range, max_range and twice max_range, each
\* with its neighbours, and the middle of every piece
RangeDistances ==
    LET marks == UNION { { 0, DRONE_RANGE_PROFILES[t].min_range, DRONE_RANGE_PROFILES[t].optimal_range,
                           DRONE_RANGE_PROFILES[t].max_range, 2 * DRONE_RANGE_PROFILES[t].max_range,
                           DRONE_RANGE_PROFILES[t].min_range \div 2,
                           (DRONE_RANGE_PROFILES[t].min_range + DRONE_RANGE_PROFILES[t].optimal_range) \div 2,
                           (DRONE_RANGE_PROFILES[t].optimal_range + DRONE_RANGE_PROFILES[t].max_range) \div 2,
                           (3 * DRONE_RANGE_PROFILES[t].max_range) \div 2,
                           3 * DRONE_RANGE_PROFILES[t].max_range } : t \in DroneTypes }
    IN  { d \in UNION { { m - 1, m, m + 1 } : m \in marks } : d >= 0 }

\* the drone types compute_range_score is called with: the eight profiles,
\* None, the empty string and a name that is no drone type
RangeDroneTypes == DroneTypes \cup { None, "", "quadcopter" }

\* compute_range_score(distance_m, drone_type)
CallComputeRangeScore(distance_m, drone_type) ==
    /\ call.function = None
    /\ call' = [function |-> "compute_range_score", distance_m |-> distance_m, drone_type |-> drone_type]
    /\ result' = [raised |-> None, value |-> ComputeRangeScore(distance_m, drone_type)]
    /\ UNCHANGED << osm_cache, analysis_vars, threads >>

\* the end points compute_line_of_sight is called with, on the elevation
\* map of Volkel: from every candidate of the grid to the target and to two
\* candidates on high ground
LosTargets ==
    { VolkelTarget,
      [lat |-> GenerateCandidateGrid(VolkelTarget.lat, VolkelTarget.lon)[27].lat,
       lon |-> GenerateCandidateGrid(VolkelTarget.lat, VolkelTarget.lon)[27].lon],
      [lat |-> GenerateCandidateGrid(VolkelTarget.lat, VolkelTarget.lon)[69].lat,
       lon |-> GenerateCandidateGrid(VolkelTarget.lat, VolkelTarget.lon)[69].lon] }

\* compute_line_of_sight(operator_lat, operator_lon, target_lat, target_lon, elevation_map)
CallComputeLineOfSight(operator, target, map) ==
    /\ call.function = None
    /\ call' = [function |-> "compute_line_of_sight", operator |-> [lat |-> operator.lat, lon |-> operator.lon],
                target |-> target, elevation_map |-> map]
    /\ result' = [raised |-> None,
                  value  |-> ComputeLineOfSight(operator.lat, operator.lon, target.lat, target.lon, map)]
    /\ UNCHANGED << osm_cache, analysis_vars, threads >>

\* the road lists score_exfil_attractiveness is called with: the synthetic
\* roads of the loader, and every list of up to two roads that are a
\* motorway, a path, a footway or of an unlisted type, near or far
RoadInputs ==
    LET road == { [type |-> t, distance_m |-> d] : t \in {"motorway", "path", "footway", "alley"},
                                                   d \in {10, 600} }
    IN  { OsmRoads, << >> } \cup { << r >> : r \in road } \cup { << r, s >> : r \in road, s \in road }

\* score_exfil_attractiveness(lat, lon, osm_data) for OSM data with the roads
CallScoreExfilAttractiveness(roads) ==
    /\ call.function = None
    /\ call' = [function |-> "score_exfil_attractiveness", roads |-> roads]
    /\ result' = [raised |-> None, value |-> ScoreExfilAttractiveness([roads |-> roads])]
    /\ UNCHANGED << osm_cache, analysis_vars, threads >>

\* get_incident_intelligence, step 2: the coordinates parsed from the WKT
\* point of the incident's site, or the default coordinates (51.6, 5.7)
\* when the incident has no site or the site no parseable geometry
IncidentTarget(incident) ==
    IF incident.has_site /\ incident.has_geom THEN [lat |-> incident.lat, lon |-> incident.lon]
    ELSE [lat |-> 51600000, lon |-> 5700000]

\* site.type.value of the incident's site, None without site
IncidentSiteType(incident) == IF incident.has_site THEN incident.site_type ELSE None

\* get_incident_intelligence, step 6: the operator hotspots of the response
ResponseHotspots(operator_analysis) ==
    [idx \in 1..Len(operator_analysis.predicted_hotspots) |->
        [rank                 |-> idx,
         latitude             |-> operator_analysis.predicted_hotspots[idx].latitude,
         longitude            |-> operator_analysis.predicted_hotspots[idx].longitude,
         distance_to_target_m |-> operator_analysis.predicted_hotspots[idx].distance_to_target_m,
         total_score          |-> operator_analysis.predicted_hotspots[idx].total_score,
         opsec_score          |-> operator_analysis.predicted_hotspots[idx].opsec_score,
         cover_type           |-> operator_analysis.predicted_hotspots[idx].cover_type]]

\* the incidents get_incident_intelligence is asked for: at the three
\* registered sites, at a site north of Eindhoven, at a site without
\* geometry, and without a site
IncidentInputs ==
    { [has_site |-> TRUE, has_geom |-> TRUE, site_type |-> "military", lat |-> 51656400, lon |-> 5708300],
      [has_site |-> TRUE, has_geom |-> TRUE, site_type |-> "airport", lat |-> 51450000, lon |-> 5374700],
      [has_site |-> TRUE, has_geom |-> TRUE, site_type |-> "airport", lat |-> 52310500, lon |-> 4768300],
      [has_site |-> TRUE, has_geom |-> TRUE, site_type |-> "other",
       lat |-> EindhovenNorthTarget.lat, lon |-> EindhovenNorthTarget.lon],
      [has_site |-> TRUE, has_geom |-> FALSE, site_type |-> "military", lat |-> 0, lon |-> 0],
      [has_site |-> FALSE, has_geom |-> FALSE, site_type |-> None, lat |-> 0, lon |-> 0] }

\* get_incident_intelligence(incident_id) for an incident that exists: the
\* operator analysis is that of the V1 engine, which the endpoint imports
\* from services/operator_hideout.py
CallGetIncidentIntelligence(incident) ==
    /\ call.function = None
    /\ call' = [function |-> "get_incident_intelligence", incident |-> incident]
    /\ LET operator_analysis == V1AnalyzeIncident(IncidentTarget(incident).lat, IncidentTarget(incident).lon,
                                                  IncidentSiteType(incident))
       IN  result' = [raised |-> None,
                      value  |-> [operator_hotspots  |-> ResponseHotspots(operator_analysis),
                                  search_radius_m    |-> operator_analysis.search_radius_m,
                                  perimeter_radius_m |-> operator_analysis.perimeter_radius_m]]
    /\ UNCHANGED << osm_cache, analysis_vars, threads >>

NextDirect ==
    \/ \E fields \in BoundaryInputs : CallSiteBoundary(fields)
    \/ \E boundary \in BoundaryInputs, point \in PointInputs : CallIsInsideBoundary(boundary, point)
    \/ \E location \in LocationInputs, radius_m \in LookupRadiiM :
          CallGetSiteBoundaryByLocation(location, radius_m)
    \/ \E direction_str \in DirectionInputs : CallParseDirection(direction_str)
    \/ \E candidate \in AlignmentCandidates, approach_vector \in DirectionInputs,
           confidence_weight \in {VectorConfidenceWeight, 10000} :
          CallScoreVectorAlignment(VolkelTarget, candidate, approach_vector, confidence_weight)
    \/ \E evidence_items \in EvidenceWeightInputs : CallComputeEvidenceWeight(evidence_items)
    \/ \E distance_m \in RangeDistances, drone_type \in RangeDroneTypes :
          CallComputeRangeScore(distance_m, drone_type)
    \/ \E roads \in RoadInputs : CallScoreExfilAttractiveness(roads)
    \/ \E incident \in IncidentInputs : CallGetIncidentIntelligence(incident)
    \/ \E i \in 1..(Len(GridDistancesM) * Len(GridAngles)), target \in LosTargets :
          CallComputeLineOfSight(GenerateCandidateGrid(VolkelTarget.lat, VolkelTarget.lon)[i], target,
                                 LoadElevation(VolkelTarget.lat, VolkelTarget.lon, SearchRadiusKm))

SpecDirect == Init /\ [][NextDirect]_vars

NextScoring ==
    \/ \E target \in {VolkelTarget} : CallLoadTerrain(target)
    \/ \E i \in 1..(Len(GridDistancesM) * Len(GridAngles)), drone_type \in DroneTypes \cup {None},
           context \in ScoringContexts :
          CallScoreCandidate(i, drone_type, context[1], context[2], context[3])

SpecScoring == Init /\ [][NextScoring]_vars

----------------------------------------------------------------------------
(* Properties of the direct calls                                          *)

\* the scores of a hotspot the spec bounds: the seven components, the OPSEC
\* gate, the confidence score and the total
BoundedScores ==
    {"cover_score", "concealment_score", "exfil_score", "range_score", "los_score",
     "vector_alignment_score", "locality_consistency_score", "opsec_score", "confidence_score",
     "total_score"}

\* C12: for every scored candidate, whatever the drone type, the approach
\* vector, the time of day and the evidence (credibilities in [0, 1]),
\* scoring raises nothing and each component score, the OPSEC gate, the
\* confidence score and the total score lie in [0, 1]
C12_ScoresInUnitRange ==
    call.function = "_score_candidate_v2" =>
        /\ result.raised = None
        /\ \A f \in BoundedScores : result.value[f] >= 0 /\ result.value[f] <= 10000

\* a night call with the strongest evidence scored a candidate outside the
\* perimeter, and the night rules capped its total at 1.0
C12_Witness ==
    /\ call.function = "_score_candidate_v2"
    /\ call.time_of_day = "night"
    /\ call.evidence_items = StrongEvidence
    /\ result.raised = None
    /\ result.value.opsec_score = 10000
    /\ result.value.locality_consistency_score = 10000
    /\ result.value.total_score = 10000

\* the constructor arguments give a circle, a polygon
GivesCircle(fields) == "radius_m" \in DOMAIN fields

GivesPolygon(fields) == "polygon_vertices" \in DOMAIN fields

\* C13: constructing a SiteBoundary raises an error when neither radius_m
\* nor polygon_vertices is given and also when both are given; it succeeds
\* only when exactly one of the two shapes is given
C13_InvalidShapeRejected ==
    call.function = "SiteBoundary" =>
        (result.raised = None <=> (GivesCircle(call.fields) /\ ~GivesPolygon(call.fields))
                                    \/ (GivesPolygon(call.fields) /\ ~GivesCircle(call.fields)))

\* the distance, in metres, from the centre of the boundary of the call to
\* the point of the call
CentreDistance == HaversineM(call.boundary.center_lat, call.boundary.center_lon, call.lat, call.lon)

\* C14: for a circular boundary is_inside_boundary is true exactly when the
\* distance from the centre to the point is at most radius_m +
\* safety_buffer_m, the limit included
C14_CircleInsideWithinRadiusPlusBuffer ==
    (call.function = "is_inside_boundary" /\ GivesCircle(call.boundary)) =>
        (result.value <=> CentreDistance <= call.boundary.radius_m + call.boundary.safety_buffer_m)

\* a point exactly at radius + buffer from the centre was found inside
C14_Witness ==
    /\ call.function = "is_inside_boundary"
    /\ GivesCircle(call.boundary)
    /\ CentreDistance = call.boundary.radius_m + call.boundary.safety_buffer_m
    /\ result.value

\* the distance, in metres, from the origin of a plane to the segment from
\* (ax, ay) to (bx, by) of that plane
PlaneSegmentDistance(ax, ay, bx, by) ==
    LET ex  == bx - ax
        ey  == by - ay
        num == 0 - (ax * ex + ay * ey)
        den == ex * ex + ey * ey
    IN  IF den = 0 \/ num <= 0 THEN Sqrt(ax * ax + ay * ay)
        ELSE IF num >= den THEN Sqrt(bx * bx + by * by)
        ELSE Div(Abs(ax * by - ay * bx), Sqrt(den))

\* the distance, in metres, from a point to the edge from v1 to v2, measured
\* on the ground: both ends are placed in metres east and north of the point
EdgeDistanceOnGround(lat, lon, v1, v2) ==
    PlaneSegmentDistance(Div(Div((v1[2] - lon) * CosLatE4(lat), 10000) * 11120, 100000),
                         Div((v1[1] - lat) * 11120, 100000),
                         Div(Div((v2[2] - lon) * CosLatE4(lat), 10000) * 11120, 100000),
                         Div((v2[1] - lat) * 11120, 100000))

\* the distance on the ground from a point to the nearest edge of a polygon
NearestEdgeOnGround(lat, lon, vertices) ==
    LET n == Len(vertices)
        d(i) == EdgeDistanceOnGround(lat, lon, vertices[i], vertices[(i % n) + 1])
    IN  CHOOSE m \in { d(i) : i \in 1..n } : \A i \in 1..n : m <= d(i)

\* C15: for a polygon boundary is_inside_boundary is true exactly when the
\* point is inside the polygon by the even-odd rule or its distance to the
\* nearest edge of the polygon is at most safety_buffer_m
C15_PolygonInsideOrNearEdge ==
    (call.function = "is_inside_boundary" /\ GivesPolygon(call.boundary) /\ ~GivesCircle(call.boundary)) =>
        (result.value <=>
            \/ PointInPolygon(call.lat, call.lon, call.boundary.polygon_vertices)
            \/ NearestEdgeOnGround(call.lat, call.lon, call.boundary.polygon_vertices)
                   <= call.boundary.safety_buffer_m)

\* the distance, in metres, from the location of the call to the centre of
\* the i-th registered site
SiteDistance(i) == HaversineM(KNOWN_SITES[i].center_lat, KNOWN_SITES[i].center_lon, call.lat, call.lon)

\* C16: get_site_boundary_by_location returns no site exactly when no
\* registered site has its centre within the radius, and otherwise a site
\* within the radius than which no registered site is nearer
C16_NearestSiteWithinRadius ==
    call.function = "get_site_boundary_by_location" =>
        /\ result.raised = None
        /\ result.value \in 0..Len(KNOWN_SITES)
        /\ result.value = 0 <=> \A i \in 1..Len(KNOWN_SITES) : SiteDistance(i) > call.radius_m
        /\ result.value # 0 =>
               /\ SiteDistance(result.value) <= call.radius_m
               /\ \A i \in 1..Len(KNOWN_SITES) : SiteDistance(result.value) <= SiteDistance(i)

\* a lookup with two sites within the radius returned the later, nearer one
C16_Witness ==
    /\ call.function = "get_site_boundary_by_location"
    /\ result.value # 0
    /\ \E i \in 1..Len(KNOWN_SITES) :
           /\ i < result.value
           /\ SiteDistance(i) <= call.radius_m
           /\ SiteDistance(result.value) < SiteDistance(i)

\* a lookup where every registered site is beyond the radius returned none
C16_WitnessNone ==
    /\ call.function = "get_site_boundary_by_location"
    /\ call.radius_m > 0
    /\ result.value = 0

\* the alignment score the call would give to another hotspot, all else equal
AlignmentOf(candidate) ==
    ScoreVectorAlignment(candidate.lat, candidate.lon, call.target.lat, call.target.lon,
                         call.approach_vector, call.confidence_weight).alignment_score

\* the hotspots at the distance of the hotspot of the call, one per bearing
SameRing == { c \in AlignmentCandidates : c.distance_m = call.candidate.distance_m }

\* the call gives one of the compass labels, as written in the table, as
\* the approach direction
ApproachIsLabel ==
    /\ call.function = "score_vector_alignment"
    /\ \E k \in 1..Len(DIRECTION_TO_DEGREES) : DIRECTION_TO_DEGREES[k].key = call.approach_vector

\* C17: for an approach from compass direction X, the hotspot that lies in
\* direction X from the target gets the largest alignment score of the 8
\* hotspots of its ring, and the hotspot in the opposite direction the
\* smallest
C17_HotspotInApproachDirectionScoresBest ==
    ApproachIsLabel =>
        /\ call.candidate.bearing_deg * 10 = ParseDirection(call.approach_vector) =>
               \A c \in SameRing : AlignmentOf(c) <= result.value.alignment_score
        /\ (call.candidate.bearing_deg * 10 + 1800) % 3600 = ParseDirection(call.approach_vector) =>
               \A c \in SameRing : AlignmentOf(c) >= result.value.alignment_score

\* the call is score_vector_alignment with confidence_weight 1.0
FullConfidenceCall == call.function = "score_vector_alignment" /\ call.confidence_weight = 10000

\* the rule of the four pieces, for a difference d in tenths of a degree
\* and a score s in units of 0.0001 (the sloped pieces to within one unit)
OnPiecewiseRule(d, s) ==
    /\ d \in 0..1800
    /\ d <= 300 => s = 10000
    /\ (d > 300 /\ d <= 600) => s = 10000 - 10 * (d - 300)
    /\ (d > 600 /\ d <= 900) => Abs(3 * s - (21000 - 40 * (d - 600))) < 3
    /\ d > 900 => Abs(3 * s - (9000 - 10 * (d - 900))) < 3
    /\ d = 0 => s = 10000
    /\ d = 1800 => s = 0

\* what the call would return for another hotspot, all else equal
ResultFor(candidate) ==
    ScoreVectorAlignment(candidate.lat, candidate.lon, call.target.lat, call.target.lon,
                         call.approach_vector, call.confidence_weight)

\* C18: with confidence_weight 1.0, score_vector_alignment returns exactly
\* 0.5 when the approach vector is missing; otherwise the difference d is
\* the angular difference between the expected bearing and the bearing from
\* the hotspot to the target, the score follows the piecewise-linear rule
\* (1.0 at d = 0, 0.0 at d = 180), and a hotspot with a larger d never gets
\* a larger score
C18_PiecewiseAlignmentRule ==
    FullConfidenceCall =>
        /\ result.raised = None
        /\ call.approach_vector \in {NoneStr, << >>} => result.value.alignment_score = 5000
        /\ result.value.bearing_diff # NoBearing =>
               /\ result.value.actual_bearing =
                      ComputeBearing(call.candidate.lat, call.candidate.lon, call.target.lat, call.target.lon)
               /\ result.value.bearing_diff =
                      Min(Abs(result.value.expected_bearing - result.value.actual_bearing),
                          3600 - Abs(result.value.expected_bearing - result.value.actual_bearing))
               /\ OnPiecewiseRule(result.value.bearing_diff, result.value.alignment_score)
               /\ \A c \in AlignmentCandidates :
                      ResultFor(c).bearing_diff >= result.value.bearing_diff =>
                          ResultFor(c).alignment_score <= result.value.alignment_score

\* a call with full confidence on a sloped piece of the rule
C18_Witness ==
    /\ FullConfidenceCall
    /\ result.value.bearing_diff > 300
    /\ result.value.bearing_diff < 600
    /\ result.value.alignment_score < 10000
    /\ result.value.alignment_score > 7000

\* calls with full confidence at d = 0, at d = 180 and without approach vector
C18_WitnessAligned ==
    FullConfidenceCall /\ result.value.bearing_diff = 0 /\ result.value.alignment_score = 10000

C18_WitnessOpposite ==
    FullConfidenceCall /\ result.value.bearing_diff = 1800 /\ result.value.alignment_score = 0

C18_WitnessMissing ==
    FullConfidenceCall /\ call.approach_vector = NoneStr /\ result.value.alignment_score = 5000

\* C19: parse_direction maps each of the 16 compass labels and each of the
\* 8 full direction names, in any letter case, to its bearing
C19_LabelsAndFullNamesParsed ==
    (call.function = "parse_direction" /\ call.direction_str # NoneStr) =>
        /\ \A k \in 1..Len(DIRECTION_TO_DEGREES) :
               StrUpper(call.direction_str) = DIRECTION_TO_DEGREES[k].key =>
                   result.value = DIRECTION_TO_DEGREES[k].value
        /\ \A k \in 1..Len(FullNames) :
               StrUpper(call.direction_str) = FullNames[k].key => result.value = FullNames[k].value

\* the string is missing, or, letter case and surrounding blanks aside, it
\* is neither a compass label nor a full direction name (the empty and the
\* blank string included)
NoDirection(str) ==
    \/ str = NoneStr
    \/ /\ \A k \in 1..Len(DIRECTION_TO_DEGREES) : StrStrip(StrUpper(str)) # DIRECTION_TO_DEGREES[k].key
       /\ \A k \in 1..Len(FullNames) : StrStrip(StrUpper(str)) # FullNames[k].key

\* C20: for a direction that is missing, empty, blank or no compass label
\* and no full direction name, parse_direction returns None and
\* score_vector_alignment raises nothing and returns the neutral score 0.5
\* without bearings
C20_NoDirectionIsNeutral ==
    /\ (call.function = "parse_direction" /\ NoDirection(call.direction_str)) =>
           (result.raised = None /\ result.value = NoBearing)
    /\ (call.function = "score_vector_alignment" /\ NoDirection(call.approach_vector)) =>
           (result.raised = None /\ result.value = NeutralAlignment)

\* C21: compute_evidence_weight returns total_weight 0.0 for an empty list,
\* 0.9 x 0.70 = 0.63 for a single item of credibility 0.9, and always a
\* weight within [0, 1]
C21_EvidenceWeightValues ==
    (call.function = "compute_evidence_weight" /\ result.raised = None) =>
        /\ call.evidence_items = << >> => result.value = 0
        /\ (Len(call.evidence_items) = 1 /\ call.evidence_items[1].credibility_score = << "num", 9000 >>) =>
               result.value = 6300
        /\ result.value \in 0..10000

\* C22: when predict_operator_locations is called without evidence, the
\* evidence weight echoed in the analysis and fed to every hotspot as its
\* locality consistency score is 0.0
C22_NoEvidenceWeighsZero ==
    (Returned /\ args.evidence_items = << >>) =>
        /\ analysis_v2.evidence_weight = 0
        /\ \A k \in 1..Len(ReturnedHotspots) : ReturnedHotspots[k].locality_consistency_score = 0

\* the V2 engine or the conversion of its analysis has raised in this call
V2Failed == pc # "idle" /\ args.use_v2 /\ v2_error # None

\* C23: analyze_operator_location with use_v2 never hands a failure of the
\* V2 path to its caller: once the boundary lookup, the terrain loading, the
\* evidence weighting, the scoring or the conversion has raised, nothing is
\* returned before the fallback, and what the call then returns is the
\* complete analysis of the V1 engine, with no V2 hotspot in it
C23_V2FailureFallsBackToV1 ==
    V2Failed =>
        /\ pc \in {"raised", "done"}
        /\ pc = "raised" => analysis = None
        /\ pc = "done" =>
               /\ analysis = V1AnalyzeIncident(args.target.lat, args.target.lon, args.site_type)
               /\ Len(analysis.predicted_hotspots) = TopN

\* the call returned the V1 analysis after the conversion raised, the V2
\* hotspots being ranked already
C23_Witness ==
    /\ V2Failed
    /\ pc = "done"
    /\ v2_error = "Exception"
    /\ candidates # << >>
    /\ index > Len(candidates)
    /\ analysis = V1AnalyzeIncident(args.target.lat, args.target.lon, args.site_type)

\* the call returned the V1 analysis after the scoring raised
C23_WitnessScoring ==
    V2Failed /\ pc = "done" /\ v2_error = "ValidationError" /\ Len(analysis.predicted_hotspots) = TopN

\* the call returned the V1 analysis after the boundary lookup raised
C23_WitnessBoundary ==
    V2Failed /\ pc = "done" /\ v2_error = "Exception" /\ candidates = << >> /\ Len(analysis.predicted_hotspots) = TopN

\* C24: for site_type 'military' or 'airport' analyze_operator_location
\* gates the candidates with a perimeter of 1000 m: the analysis carries
\* that perimeter, and a candidate scored at less than 1000 m from the
\* target has OPSEC score 0, as one inside the perimeter has
C24_WidePerimeterForSecureSites ==
    (pc = "done" /\ args.site_type \in {"military", "airport"}) =>
        /\ analysis.perimeter_radius_m = 1000
        /\ (args.use_v2 /\ v2_error = None) =>
               \A k \in 1..Len(scored_hotspots) :
                   scored_hotspots[k].distance_to_target_m < 1000 => scored_hotspots[k].opsec_score = 0
        /\ \A k \in 1..Len(analysis.predicted_hotspots) :
               analysis.predicted_hotspots[k].distance_to_target_m < 1000 =>
                   analysis.predicted_hotspots[k].opsec_score = 0

\* a call for a military site scored a candidate between 500 m and 1000 m
\* from the target with OPSEC score 1
C24_ScoredInsideWidePerimeter ==
    /\ pc = "done" /\ args.use_v2 /\ v2_error = None /\ args.site_type = "military"
    /\ \E k \in 1..Len(scored_hotspots) :
           /\ scored_hotspots[k].distance_to_target_m < 1000
           /\ scored_hotspots[k].opsec_score = 10000

\* C25: a candidate scored by the V2 engine at less than perimeter_radius_m
\* from the target has OPSEC gate 0 and total score 0, by day and by night;
\* a candidate at or beyond the perimeter has gate 1
C25_InsidePerimeterDisqualified ==
    (call.function = "_score_candidate_v2" /\ result.raised = None) =>
        /\ result.value.distance_to_target_m < PerimeterRadiusM =>
               (result.value.opsec_score = 0 /\ result.value.total_score = 0)
        /\ result.value.distance_to_target_m >= PerimeterRadiusM => result.value.opsec_score = 10000

\* the range profile that applies to the drone type of the call
CallProfile ==
    IF call.drone_type \in DroneTypes THEN DRONE_RANGE_PROFILES[call.drone_type]
    ELSE DRONE_RANGE_PROFILES["unknown"]

\* score s lies, to within one unit, on the line from (d1, s1) to (d2, s2) at d
OnLine(d, s, d1, s1, d2, s2) ==
    Abs((s - s1) * (d2 - d1) - (s2 - s1) * (d - d1)) < d2 - d1

\* C26: for every drone-type profile compute_range_score lies in [0, 1] and
\* is linear on each piece: 0 at distance 0, 0.3 at min_range, 1.0 at
\* optimal_range, 0.3 at max_range, 0 from twice max_range on; it has no
\* jump from one metre to the next; a missing or unrecognised drone type is
\* scored with the UNKNOWN profile and raises nothing
C26_RangeScorePiecewiseLinear ==
    call.function = "compute_range_score" =>
        LET d == call.distance_m
            s == result.value
            p == CallProfile
        IN  /\ result.raised = None
            /\ s \in 0..10000
            /\ d <= p.min_range => OnLine(d, s, 0, 0, p.min_range, 3000)
            /\ (d >= p.min_range /\ d <= p.optimal_range) =>
                   OnLine(d, s, p.min_range, 3000, p.optimal_range, 10000)
            /\ (d >= p.optimal_range /\ d <= p.max_range) =>
                   OnLine(d, s, p.optimal_range, 10000, p.max_range, 3000)
            /\ (d >= p.max_range /\ d <= 2 * p.max_range) =>
                   OnLine(d, s, p.max_range, 3000, 2 * p.max_range, 0)
            /\ d >= 2 * p.max_range => s = 0
            /\ Abs(ComputeRangeScore(d + 1, call.drone_type) - s) * p.min_range <= 3000 + p.min_range
            /\ call.drone_type \notin DroneTypes => s = ComputeRangeScore(d, "unknown")

\* a call with an unrecognised drone type, between max_range and twice
\* max_range of the UNKNOWN profile
C26_Witness ==
    /\ call.function = "compute_range_score"
    /\ call.drone_type = "quadcopter"
    /\ call.distance_m = 6000
    /\ result.value = 1500

\* calls at optimal_range and at twice max_range of a known profile
C26_WitnessOptimal ==
    /\ call.function = "compute_range_score"
    /\ call.drone_type = "military_medium"
    /\ call.distance_m = 5000
    /\ result.value = 10000

C26_WitnessTwiceMax ==
    /\ call.function = "compute_range_score"
    /\ call.drone_type = None
    /\ call.distance_m = 8000
    /\ result.value = 0

\* the height of sample i of the path of the call above the straight line
\* between the end point elevations, times num_samples, in decimetres
HeightAboveLine(i) ==
    LosObstruction(call.operator.lat, call.operator.lon, result.value.operator_elevation,
                   call.target.lat, call.target.lon, result.value.target_elevation,
                   call.elevation_map, i)

\* every sample of the path lies more than `margin` decimetres below the line
AllBelowLine(margin) == \A i \in 1..(LosNumSamples - 1) : HeightAboveLine(i) < -margin * LosNumSamples

\* no sample of the path lies more than 10 m above the line
NotBlocked == \A i \in 1..(LosNumSamples - 1) : HeightAboveLine(i) <= 100 * LosNumSamples

\* C27: for a path that is not blocked compute_line_of_sight returns
\* quality 1.0 when every sample lies more than 10 m below the line, 0.9
\* when the terrain lies below the line by less, and 0.8 otherwise
C27_LosQualityTiers ==
    (call.function = "compute_line_of_sight" /\ NotBlocked) =>
        /\ result.value.has_los
        /\ result.value.quality = IF AllBelowLine(100) THEN 10000
                                  ELSE IF AllBelowLine(0) THEN 9000
                                  ELSE 8000

\* a path whose every sample lies more than 10 m below the line got 0.8
C27_DeepBelowLineGetsLowestTier ==
    call.function = "compute_line_of_sight" /\ AllBelowLine(100) /\ result.value.quality = 8000

\* C28: score_exfil_attractiveness lies in [0.2, 1.0] for every list of
\* roads, the empty list included
C28_ExfilAtLeastMinimum ==
    call.function = "score_exfil_attractiveness" =>
        (result.raised = None /\ result.value >= 2000 /\ result.value <= 10000)

\* the registered site, if any, at which the incident of the call lies
IncidentSite ==
    GetSiteBoundaryByLocation(IncidentTarget(call.incident).lat, IncidentTarget(call.incident).lon,
                              SiteLookupRadiusM)

\* C29: for an incident at a known site no hotspot in the response of
\* get_incident_intelligence lies inside that site's boundary plus buffer
C29_EndpointRespectsBoundary ==
    (call.function = "get_incident_intelligence" /\ IncidentSite # 0) =>
        \A k \in 1..Len(result.value.operator_hotspots) :
            ~IsInsideBoundary(KNOWN_SITES[IncidentSite], result.value.operator_hotspots[k].latitude,
                              result.value.operator_hotspots[k].longitude)

\* the call of the current analysis with its exit vector left out
WithoutExitVector == [args EXCEPT !.exit_vector = NoneStr]

\* C30: the exit vector has no influence on the prediction: the analysis
\* of a call is that of the same call without exit vector, except for the
\* exit_vector field, which echoes the argument
C30_ExitVectorOnlyEchoed ==
    Returned =>
        /\ analysis_v2.exit_vector = args.exit_vector
        /\ [analysis_v2 EXCEPT !.exit_vector = NoneStr]
               = MakeAnalysisV2(WithoutExitVector, PredictWith(WithoutExitVector, osm_data),
                                EvidenceWeightOf(WithoutExitVector))

\* a call with an observed exit vector has returned its three hotspots
C30_Witness ==
    /\ Returned
    /\ pc = "done"
    /\ args.exit_vector = << "N" >>
    /\ args.approach_vector = << "S" >>
    /\ Len(ReturnedHotspots) = TopN

====
